---- MODULE Spec2Model ----
(***************************************************************************)
(* A model of the geometric helpers of psynlig (src/psynlig/common.py):    *)
(*   - find_axis_intersection, the axis-intersection solver,               *)
(*   - jiggle_text, the label decluttering loop,                           *)
(*   - get_selector, the component selector,                               *)
(* and of the plot generators built on them:                               *)
(*   - the PCA loadings and scores plots that consume the selector,        *)
(*   - create_fig_and_axes and the 1D, 2D and 3D scatter generators,       *)
(*   - generate_class_colors,                                              *)
(*   - the loading lines of the 2D scores plot (_add_2d_loading_lines).    *)
(*                                                                         *)
(* Numbers.  The solver divides; its quotients are kept as exact rationals *)
(* <<numerator, denominator>> (denominator > 0, lowest terms), compared by *)
(* cross-multiplication.  None is the pair <<0, 0>>, which is no rational. *)
(*                                                                         *)
(* The decluttering loop computes in floating point.  Here a label        *)
(* position, a box size and a step are fixed-point numbers: integers that *)
(* count millionths of a data unit (Unit per data unit).  The axes limits *)
(* are whole data units, so 1% of a span is exact; a box has even width   *)
(* and height, so its centroid is exact; and each component of the nudge  *)
(* is the real value rounded to the nearest millionth.  The products and  *)
(* the square root of that computation do not fit a machine integer and   *)
(* are carried out on pairs <<high, low>> of 30-bit halves.  A position   *)
(* that numpy computes as nan (0 / 0) is kept as a flag of the label.     *)
(***************************************************************************)
EXTENDS Integers, Sequences, FiniteSets, TLC

VARIABLES
    pc,         \* position of the modelled call
    xlim,       \* axi.get_xlim(): the pair (left, right) of the axes
    ylim,       \* axi.get_ylim(): the pair (bottom, top) of the axes
    xcoeff,     \* argument of find_axis_intersection
    ycoeff,     \* argument of find_axis_intersection
    xend,       \* first returned value of find_axis_intersection
    yend,       \* second returned value of find_axis_intersection
    texts,      \* jiggle_text: the list of Text objects (their properties)
    maxiter,    \* jiggle_text: parameter maxiter
    iters,      \* jiggle_text: iterations of the outer loop started so far
    jiggle_x,   \* jiggle_text: local jiggle_x
    jiggle_y,   \* jiggle_text: local jiggle_y
    nanOutcome, \* what box1.intersects(box2) does on a box with nan corners
    texts0,     \* history: texts when jiggle_text was called
    prev,       \* history: texts before the last iteration
    moved,      \* history: the pair moved by the last iteration, or <<0, 0>>
    components, \* get_selector: parameter components
    select_components, \* get_selector: parameter select_components
    combi,      \* get_selector: parameter combi
    selector,   \* get_selector: the returned iterable, as far as consumed
    yielded,    \* the items the consumer has got from the selector so far
    plot_fn,    \* the PCA plot function called: of the loadings or the scores
    created,    \* PCA plot function: figures created so far
    raised,     \* PCA plot function: the exception raised, or "none"
    calls,      \* two invocations of jiggle_text: the state of each
    overlapped, \* history: an invocation iterated while the other was
                \* between two of its iterations
    variables,  \* generate_3d_scatter: parameter variables (column names)
    max_plots,  \* generate_3d_scatter: parameter max_plots
    warned,     \* generate_3d_scatter: warnings.warn was called
    figures,    \* generate_3d_scatter: the list figures (what each shows)
    combos,     \* generate_3d_scatter: combinations(variables, 3), as far
                \* as consumed
    nplots,     \* create_fig_and_axes: parameter nplots
    nrows,      \* create_fig_and_axes: parameter and local nrows
    ncols,      \* create_fig_and_axes: parameter and local ncols
    nfigures,   \* create_fig_and_axes: the number of figures made
    axes,       \* create_fig_and_axes: the list axes (figure and on / off)
    scatter_fn, \* the scatter generator called: generate_1d_scatter or 2d
    show_legend, \* scatter generator: parameter (1d: and local) show_legend
    handles,    \* scatter generator: plot_scatter returns legend handles
    plot_i,     \* scatter generator: plots made so far
    fig,        \* scatter generator: local fig (0: None)
    legends,    \* scatter generator: the axes that were given a legend
    show_legend0, \* history: show_legend when the scatter generator was called
    class_data, \* generate_class_colors: parameter class_data
    cmap_given, \* generate_class_colors: parameter cmap is not None
    color_class, \* generate_class_colors: the number of colours generated
    color_labels, \* generate_class_colors: the dict color_labels
    idx_class,  \* generate_class_colors: the dict idx_class
    settings,   \* _add_2d_loading_lines: parameter settings (given: not None)
    coefficients, \* _add_2d_loading_lines: zip(coefficients1, coefficients2)
    load_i,     \* _add_2d_loading_lines: variables handled by the loop so far
    lines,      \* history: what each _add_loading_line_text call did
    patches,    \* _add_2d_loading_lines: the length of the list patches
    legend,     \* _add_2d_loading_lines: a Legend was made
    extra_artists, \* _add_2d_loading_lines: the length of extra_artists
    trace,      \* history: the calls _add_2d_loading_lines made, in order
    autoscale   \* the axes rescale their limits to the data drawn on them

axisVars == <<xcoeff, ycoeff, xend, yend>>
jiggleVars == <<texts, maxiter, iters, jiggle_x, jiggle_y, nanOutcome,
                texts0, prev, moved>>
selVars == <<components, select_components, combi, selector, yielded>>
plotVars == <<plot_fn, created, raised>>
pairVars == <<calls, overlapped>>
scatVars == <<variables, max_plots, warned, figures, combos>>
gridVars == <<nplots, nrows, ncols, nfigures, axes>>
legendVars == <<scatter_fn, show_legend, handles, plot_i, fig, legends,
                show_legend0>>
colorVars == <<class_data, cmap_given, color_class, color_labels, idx_class>>
loadVars == <<settings, coefficients, load_i, lines, patches, legend,
              extra_artists, trace, autoscale>>
restVars == <<plotVars, pairVars, scatVars, gridVars, legendVars, colorVars,
              loadVars>>
vars == <<pc, xlim, ylim, axisVars, jiggleVars, selVars, restVars>>

----------------------------------------------------------------------------
(* Bounds of the model.                                                    *)

\* Viewport limits of the solver runs are drawn from -MaxLim..MaxLim.
MaxLim == 2
\* Direction coefficients of the solver runs are drawn from -MaxCoeff..MaxCoeff.
MaxCoeff == 3
\* _add_2d_loading_lines is called with at most MaxLoadings variables.
MaxLoadings == 2
\* jiggle_text is called with at most MaxTexts labels.
MaxTexts == 3
\* jiggle_text is called with maxiter in 0..MaxIter.
MaxIter == 3
\* get_selector is called with components in 0..MaxComponents.
MaxComponents == 4
\* An explicit selection has at most MaxSelect entries.
MaxSelect == 2
\* Each of two interleaved jiggle_text invocations has at most MaxPairTexts
\* labels.
MaxPairTexts == 2
\* generate_3d_scatter is called with at most MaxVariables variables.
MaxVariables == 5
\* generate_3d_scatter is called with max_plots in -1..MaxPlots.
MaxPlots == 10
\* create_fig_and_axes is called with nplots in 0..MaxNplots.
MaxNplots == 17
\* create_fig_and_axes is called with nrows and ncols in 1..MaxGridSide,
\* or without.
MaxGridSide == 2
\* generate_class_colors is called with at most MaxPoints data points.
MaxPoints == 3

----------------------------------------------------------------------------
(* Arithmetic helpers.                                                     *)

Abs(n) == IF n < 0 THEN -n ELSE n

Min2(a, b) == IF a <= b THEN a ELSE b

Max2(a, b) == IF a <= b THEN b ELSE a

RECURSIVE Gcd(_, _)
Gcd(a, b) == IF b = 0 THEN a ELSE Gcd(b, a % b)

\* Python's None.
None == <<0, 0>>

\* The quotient n / d (d # 0) as a rational in lowest terms.
Rat(n, d) ==
    LET g == Gcd(Abs(n), Abs(d))
        s == IF d < 0 THEN -1 ELSE 1
    IN  <<(s * n) \div g, Abs(d) \div g>>

\* The integer (or float with integral value) n.
Num(n) == <<n, 1>>

IsNone(r) == r[2] = 0

\* a <= b on rationals.
RLe(a, b) == a[1] * b[2] <= b[1] * a[2]

\* a = b on rationals.
REq(a, b) == a[1] * b[2] = b[1] * a[2]

\* np.sign of a rational.
Sign(r) == IF r[1] > 0 THEN 1 ELSE IF r[1] < 0 THEN -1 ELSE 0

\* c1 * a + c2 * b for integers c1, c2 and rationals a, b.
Dot(c1, a, c2, b) == Rat(c1 * a[1] * b[2] + c2 * b[1] * a[2], a[2] * b[2])

----------------------------------------------------------------------------
(* find_axis_intersection (common.py 268-326).                             *)

\* direction(xhat, yhat) of find_axis_intersection, for its xcoeff, ycoeff
\* (this variant accepts both sides of the origin).
direction_BothSides(xc, yc, xhat, yhat) == Sign(Dot(xc, xhat, yc, yhat)) # 0

\* direction(xhat, yhat) of find_axis_intersection, for its xcoeff, ycoeff.
direction(xc, yc, xhat, yhat) == Sign(Dot(xc, xhat, yc, yhat)) > 0

\* One "Possibility" block on a vertical boundary line x = xb
\* (this variant keeps a result that an earlier block has set).
PossibilityX_KeepsFirst(res, xb, ymin, ymax, xc, yc) ==
    LET yhat == Rat(yc * xb, xc)
    IN  IF RLe(Num(ymin), yhat) /\ RLe(yhat, Num(ymax))
           /\ direction(xc, yc, Num(xb), yhat)
           /\ IsNone(res[1])
        THEN <<Num(xb), yhat>>
        ELSE res

\* One "Possibility" block on a vertical boundary line x = xb: the
\* candidate replaces the result so far (res) when it is accepted.
PossibilityX(res, xb, ymin, ymax, xc, yc) ==
    LET yhat == Rat(yc * xb, xc)
    IN  IF RLe(Num(ymin), yhat) /\ RLe(yhat, Num(ymax))
           /\ direction(xc, yc, Num(xb), yhat)
        THEN <<Num(xb), yhat>>
        ELSE res

\* One "Possibility" block on a horizontal boundary line y = yb.
PossibilityY(res, yb, xmin, xmax, xc, yc) ==
    LET xhat == Rat(xc * yb, yc)
    IN  IF RLe(Num(xmin), xhat) /\ RLe(xhat, Num(xmax))
           /\ direction(xc, yc, xhat, Num(yb))
        THEN <<xhat, Num(yb)>>
        ELSE res

\* find_axis_intersection without its test for the direction (0, 0): the
\* zero direction falls into the xcoeff == 0 branch.
find_axis_intersection_NoZeroTest(xl, yl, xc, yc) ==
    LET xmin == Min2(xl[1], xl[2])
        xmax == Max2(xl[1], xl[2])
        ymin == Min2(yl[1], yl[2])
        ymax == Max2(yl[1], yl[2])
        p0 == <<None, None>>
        p1 == PossibilityX(p0, xmin, ymin, ymax, xc, yc)
        p2 == PossibilityY(p1, ymin, xmin, xmax, xc, yc)
        p3 == PossibilityX(p2, xmax, ymin, ymax, xc, yc)
        p4 == PossibilityY(p3, ymax, xmin, xmax, xc, yc)
    IN  IF xc = 0
        THEN <<Num(0), IF yc > 0 THEN Num(ymax) ELSE Num(ymin)>>
        ELSE IF yc = 0
             THEN <<IF xc > 0 THEN Num(xmax) ELSE Num(xmin), Num(0)>>
        ELSE p4

\* find_axis_intersection with the two ends of the y axis exchanged in the
\* xcoeff == 0 branch.
find_axis_intersection_WrongEnd(xl, yl, xc, yc) ==
    LET xmin == Min2(xl[1], xl[2])
        xmax == Max2(xl[1], xl[2])
        ymin == Min2(yl[1], yl[2])
        ymax == Max2(yl[1], yl[2])
        p0 == <<None, None>>
        p1 == PossibilityX(p0, xmin, ymin, ymax, xc, yc)
        p2 == PossibilityY(p1, ymin, xmin, xmax, xc, yc)
        p3 == PossibilityX(p2, xmax, ymin, ymax, xc, yc)
        p4 == PossibilityY(p3, ymax, xmin, xmax, xc, yc)
    IN  IF xc = 0 /\ yc = 0 THEN p0
        ELSE IF xc = 0
             THEN <<Num(0), IF yc > 0 THEN Num(ymin) ELSE Num(ymax)>>
        ELSE IF yc = 0
             THEN <<IF xc > 0 THEN Num(xmax) ELSE Num(xmin), Num(0)>>
        ELSE p4

\* The pair (xend, yend) find_axis_intersection returns for the limits
\* xl = axi.get_xlim(), yl = axi.get_ylim() and the direction (xc, yc).
find_axis_intersection(xl, yl, xc, yc) ==
    LET xmin == Min2(xl[1], xl[2])
        xmax == Max2(xl[1], xl[2])
        ymin == Min2(yl[1], yl[2])
        ymax == Max2(yl[1], yl[2])
        p0 == <<None, None>>
        p1 == PossibilityX(p0, xmin, ymin, ymax, xc, yc)
        p2 == PossibilityY(p1, ymin, xmin, xmax, xc, yc)
        p3 == PossibilityX(p2, xmax, ymin, ymax, xc, yc)
        p4 == PossibilityY(p3, ymax, xmin, xmax, xc, yc)
    IN  IF xc = 0 /\ yc = 0 THEN p0
        ELSE IF xc = 0
             THEN <<Num(0), IF yc > 0 THEN Num(ymax) ELSE Num(ymin)>>
        ELSE IF yc = 0
             THEN <<IF xc > 0 THEN Num(xmax) ELSE Num(xmin), Num(0)>>
        ELSE p4

----------------------------------------------------------------------------
(* The solver as a state machine: a caller holding an axes with some       *)
(* limits calls find_axis_intersection with some direction.                *)

\* The limits an axes can have: two distinct numbers, in either order
\* (an inverted axis has left > right).
Limits == {l \in (-MaxLim..MaxLim) \X (-MaxLim..MaxLim) : l[1] # l[2]}

Coeffs == -MaxCoeff..MaxCoeff

\* The state of the variables of jiggle_text while it is not running.
JiggleIdle ==
    /\ texts = <<>> /\ texts0 = <<>> /\ prev = <<>>
    /\ maxiter = 0 /\ iters = 0
    /\ jiggle_x = 0 /\ jiggle_y = 0
    /\ nanOutcome = "unset"
    /\ moved = <<0, 0>>

\* An iterable that has not been made: the state of selector before
\* get_selector returns.
NoSelector ==
    [kind |-> "none", n |-> 0, r |-> 0, pos |-> 0, indices |-> <<>>, sel |-> <<>>]

\* select_components = None.
NoSelection == [none |-> TRUE, items |-> <<>>]

\* The state of the variables of get_selector while it is not used.
SelectorIdle ==
    /\ components = 0 /\ combi = 1
    /\ select_components = NoSelection
    /\ selector = NoSelector
    /\ yielded = <<>>

\* The state of the variables of the PCA plot functions while none runs.
PlotIdle == plot_fn = "none" /\ created = 0 /\ raised = "none"

\* The state of the variables of the functions that do not run.
\* The state of the variables of two interleaved jiggle_text invocations
\* while there are none.
PairIdle == calls = <<>> /\ overlapped = FALSE

\* The state of the variables of generate_3d_scatter while it does not run.
ScatterIdle ==
    /\ variables = <<>> /\ max_plots = 0
    /\ warned = FALSE
    /\ figures = <<>>
    /\ combos = NoSelector

\* nrows=None, ncols=None.
Unset == -1

\* The state of the variables of create_fig_and_axes while it does not run.
GridIdle ==
    /\ nplots = 0 /\ nrows = Unset /\ ncols = Unset
    /\ nfigures = 0
    /\ axes = <<>>

\* The state of the variables of the scatter generators while none runs.
LegendIdle ==
    /\ scatter_fn = "none"
    /\ show_legend = FALSE /\ show_legend0 = FALSE /\ handles = FALSE
    /\ plot_i = 0 /\ fig = 0
    /\ legends = {}

\* {}: a dict without entries.
EmptyDict == [i \in {} |-> 0]

\* The state of the variables of generate_class_colors while it does not
\* run.
ColorIdle ==
    /\ class_data = NoSelection
    /\ cmap_given = FALSE
    /\ color_class = Unset
    /\ color_labels = EmptyDict
    /\ idx_class = EmptyDict

\* settings = None.
NoSettings ==
    [given |-> FALSE, biplot |-> FALSE, add_text |-> FALSE, add_legend |-> FALSE,
     adjust_text |-> FALSE, jiggle_text |-> FALSE]

\* The state of the variables of _add_2d_loading_lines while it does not
\* run.
LoadingIdle ==
    /\ settings = NoSettings
    /\ coefficients = <<>>
    /\ load_i = 0
    /\ lines = <<>>
    /\ patches = 0
    /\ legend = FALSE
    /\ extra_artists = 0
    /\ trace = <<>>
    /\ autoscale = FALSE

RestIdle ==
    /\ PlotIdle
    /\ PairIdle
    /\ ScatterIdle
    /\ GridIdle
    /\ LegendIdle
    /\ ColorIdle
    /\ LoadingIdle

InitAxis ==
    /\ pc = "axis_call"
    /\ JiggleIdle
    /\ SelectorIdle
    /\ RestIdle
    /\ xlim \in Limits
    /\ ylim \in Limits
    /\ xcoeff \in Coeffs
    /\ ycoeff \in Coeffs
    /\ xend = None
    /\ yend = None

\* The call find_axis_intersection(axi, xcoeff, ycoeff) and its return
\* (this variant puts the limits of the axes in ascending order).
FindAxisIntersection_SortsLimits ==
    /\ pc = "axis_call"
    /\ LET r == find_axis_intersection(xlim, ylim, xcoeff, ycoeff)
       IN  /\ xend' = r[1]
           /\ yend' = r[2]
    /\ xlim' = <<Min2(xlim[1], xlim[2]), Max2(xlim[1], xlim[2])>>
    /\ ylim' = <<Min2(ylim[1], ylim[2]), Max2(ylim[1], ylim[2])>>
    /\ pc' = "axis_done"
    /\ UNCHANGED <<xcoeff, ycoeff, jiggleVars, selVars, restVars>>

\* The call find_axis_intersection(axi, xcoeff, ycoeff) and its return.
FindAxisIntersection ==
    /\ pc = "axis_call"
    /\ LET r == find_axis_intersection(xlim, ylim, xcoeff, ycoeff)
       IN  /\ xend' = r[1]
           /\ yend' = r[2]
    /\ pc' = "axis_done"
    /\ UNCHANGED <<xlim, ylim, xcoeff, ycoeff, jiggleVars, selVars,
                   restVars>>

NextAxis == FindAxisIntersection

SpecAxis == InitAxis /\ [][NextAxis]_vars

----------------------------------------------------------------------------
(* Properties of find_axis_intersection.                                   *)

ViewXmin == Min2(xlim[1], xlim[2])

ViewXmax == Max2(xlim[1], xlim[2])

ViewYmin == Min2(ylim[1], ylim[2])

ViewYmax == Max2(ylim[1], ylim[2])

\* The origin lies inside the viewport or on its boundary.
OriginInView == ViewXmin <= 0 /\ 0 <= ViewXmax /\ ViewYmin <= 0 /\ 0 <= ViewYmax

\* The point (xe, ye) is a point of the viewport's rectangular boundary.
OnBoundary(xe, ye) ==
    /\ ~IsNone(xe) /\ ~IsNone(ye)
    /\ RLe(Num(ViewXmin), xe) /\ RLe(xe, Num(ViewXmax))
    /\ RLe(Num(ViewYmin), ye) /\ RLe(ye, Num(ViewYmax))
    /\ \/ REq(xe, Num(ViewXmin)) \/ REq(xe, Num(ViewXmax))
       \/ REq(ye, Num(ViewYmin)) \/ REq(ye, Num(ViewYmax))

\* The ray t * (xcoeff, ycoeff), t >= 0, leaves the viewport at the point
\* (cx, cy): the point is in the viewport and on the ray, and the ray is
\* outside the viewport right after it.
ExitsAt(cx, cy) ==
    /\ ViewXmin <= cx /\ cx <= ViewXmax /\ ViewYmin <= cy /\ cy <= ViewYmax
    /\ cx * ycoeff = cy * xcoeff
    /\ cx * xcoeff + cy * ycoeff >= 0
    /\ \/ cx = ViewXmax /\ xcoeff > 0
       \/ cx = ViewXmin /\ xcoeff < 0
       \/ cy = ViewYmax /\ ycoeff > 0
       \/ cy = ViewYmin /\ ycoeff < 0

Corners == {ViewXmin, ViewXmax} \X {ViewYmin, ViewYmax}

\* C1: for every viewport with the origin inside it or on its boundary,
\* find_axis_intersection returns None only for the direction (0, 0); for
\* every other direction it returns a point of the viewport's boundary.
C1_NoneOnlyForZero ==
    (pc = "axis_done" /\ OriginInView /\ ~(xcoeff = 0 /\ ycoeff = 0))
        => OnBoundary(xend, yend)

\* C2: for the direction (0, 0) find_axis_intersection returns
\* (None, None), whatever the viewport.
C2_ZeroGivesNone ==
    (pc = "axis_done" /\ xcoeff = 0 /\ ycoeff = 0)
        => (xend = None /\ yend = None)

C2_Witness ==
    /\ pc = "axis_done" /\ xcoeff = 0 /\ ycoeff = 0
    /\ xlim = <<2, -1>> /\ ylim = <<1, 2>>
    /\ xend = None /\ yend = None

\* C3: for an axis-aligned direction the result is immediate: xcoeff = 0
\* gives xend = 0 and yend = ymax if ycoeff > 0 else ymin; ycoeff = 0 gives
\* yend = 0 and xend = xmax if xcoeff > 0 else xmin; with the origin in the
\* viewport this is a point of the boundary.
C3_AxisAligned ==
    pc = "axis_done" =>
        /\ (xcoeff = 0 /\ ycoeff > 0) => (xend = Num(0) /\ yend = Num(ViewYmax))
        /\ (xcoeff = 0 /\ ycoeff < 0) => (xend = Num(0) /\ yend = Num(ViewYmin))
        /\ (ycoeff = 0 /\ xcoeff > 0) => (xend = Num(ViewXmax) /\ yend = Num(0))
        /\ (ycoeff = 0 /\ xcoeff < 0) => (xend = Num(ViewXmin) /\ yend = Num(0))
        /\ ((xcoeff = 0) # (ycoeff = 0) /\ OriginInView) => OnBoundary(xend, yend)

\* Viewport (-1, 1, -1, 1) and direction (2, 0) give (1, 0).
C3_Witness ==
    /\ pc = "axis_done"
    /\ xlim = <<-1, 1>> /\ ylim = <<-1, 1>>
    /\ xcoeff = 2 /\ ycoeff = 0
    /\ xend = Num(1) /\ yend = Num(0)

\* C4: when the ray from the origin leaves the viewport exactly at a
\* corner, find_axis_intersection returns that corner.
C4_CornerReturned ==
    (pc = "axis_done" /\ OriginInView) =>
        \A c \in Corners :
            ExitsAt(c[1], c[2]) => (xend = Num(c[1]) /\ yend = Num(c[2]))

----------------------------------------------------------------------------
(* Labels and their bounding boxes (common.py 329-360).                    *)

\* A Text object: its position (x, y), or nan, its alignment, its
\* background colour and the width and height of its rendered text.
Label(x, y, ha, va, w, h) ==
    [x |-> x, y |-> y, nan |-> FALSE, ha |-> ha, va |-> va,
     bg |-> "none", w |-> w, h |-> h]

\* The bounding box of a rendered text in data coordinates: where it lies
\* relative to the text's position is given by the alignment.
TextBox(t) ==
    LET x0 == IF t.ha = "left" THEN t.x
              ELSE IF t.ha = "center" THEN t.x - t.w \div 2
              ELSE t.x - t.w
        y0 == IF t.va = "bottom" THEN t.y
              ELSE IF t.va = "center" THEN t.y - t.h \div 2
              ELSE t.y - t.h
    IN  [x0 |-> x0, y0 |-> y0, x1 |-> x0 + t.w, y1 |-> y0 + t.h, nan |-> t.nan]

\* _get_text_boxes: the boxes of all texts, in the order of the list.
get_text_boxes(ts) == [i \in 1..Len(ts) |-> TextBox(ts[i])]

\* np.array(box.centroid): the coordinates of Polygon.centroid of a box,
\* as shapely gives them through the array interface of a Point (the
\* releases before 2.0, which the code was written for).
Centroid(b) ==
    [nan |-> b.nan, x |-> (b.x0 + b.x1) \div 2, y |-> (b.y0 + b.y1) \div 2]

\* Polygon.intersects of two boxes with finite corners: closed rectangles,
\* so boxes that only touch intersect.
RectIntersects(b1, b2) ==
    /\ b1.x0 <= b2.x1 /\ b2.x0 <= b1.x1
    /\ b1.y0 <= b2.y1 /\ b2.y0 <= b1.y1

\* box1.intersects(box2).  On a box with nan corners the answer is the
\* one the build gives (nanOutcome).
Intersects(b1, b2) ==
    IF b1.nan \/ b2.nan THEN nanOutcome = "true" ELSE RectIntersects(b1, b2)

\* The scan of the pairs stops at this pair: it intersects, or the test
\* itself fails on it.
StopsScan(b1, b2) ==
    \/ Intersects(b1, b2)
    \/ (b1.nan \/ b2.nan) /\ nanOutcome = "raise"

\* The pairs of combinations_with_replacement: a text is also paired
\* with itself.
Pairs_WithReplacement(n) == {p \in (1..n) \X (1..n) : p[1] <= p[2]}

\* combinations(range(n), 2): the pairs i < j.
Pairs(n) == {p \in (1..n) \X (1..n) : p[1] < p[2]}

\* The order in which combinations yields the pairs.
PairBefore(p, q) == p[1] < q[1] \/ (p[1] = q[1] /\ p[2] < q[2])

\* A scan that only compares the first text with the others.
StopPairs_FirstTextOnly(ts) ==
    LET boxes == get_text_boxes(ts)
    IN  {p \in Pairs(Len(ts)) : p[1] = 1 /\ StopsScan(boxes[p[1]], boxes[p[2]])}

\* The pairs of the list at which a scan would stop.
StopPairs(ts) ==
    LET boxes == get_text_boxes(ts)
    IN  {p \in Pairs(Len(ts)) : StopsScan(boxes[p[1]], boxes[p[2]])}

\* The pair at which the scan of an iteration stops
\* (this variant: the last one in the order of combinations).
FirstPair_Last(ts) ==
    LET stops == StopPairs(ts)
    IN  CHOOSE p \in stops : \A q \in stops : p = q \/ PairBefore(q, p)

\* The pair at which the scan of an iteration stops: the first one in the
\* order of combinations.
FirstPair(ts) ==
    LET stops == StopPairs(ts)
    IN  CHOOSE p \in stops : \A q \in stops : p = q \/ PairBefore(p, q)

\* The fixed-point resolution: the number of steps of a position per data
\* unit.
Unit == 1000000

\* A natural number too large for a machine integer, as the pair
\* <<high, low>> that stands for high * 2^30 + low, low < 2^30.
Wide == Nat \X Nat

\* high * 2^30 + low for a low part that may have reached 2^30.
WideJoin[hi \in Nat, low \in Nat] ==
    <<hi + low \div 1073741824, low % 1073741824>>

\* The product of two naturals below 2^30, from the products of their
\* 15-bit halves.
WideMul[x \in Nat, y \in Nat] ==
    LET Carry[hi \in Nat, cross \in Nat, lo \in Nat] ==
            WideJoin[hi + cross \div 32768, (cross % 32768) * 32768 + lo]
    IN  Carry[(x \div 32768) * (y \div 32768),
              (x \div 32768) * (y % 32768) + (x % 32768) * (y \div 32768),
              (x % 32768) * (y % 32768)]

WideAdd[p \in Wide, q \in Wide] == WideJoin[p[1] + q[1], p[2] + q[2]]

\* p - q for p >= q.
WideSub[p \in Wide, q \in Wide] ==
    IF p[2] >= q[2] THEN <<p[1] - q[1], p[2] - q[2]>>
    ELSE <<p[1] - q[1] - 1, p[2] - q[2] + 1073741824>>

WideLe[p \in Wide, q \in Wide] == p[1] < q[1] \/ (p[1] = q[1] /\ p[2] <= q[2])

\* The integer part of p / (d * 2^15), for 0 < d <= 2^15 and a quotient
\* below 2^30: long division of the three upper 15-bit digits of p.
WideDiv[p \in Wide, d \in Nat] ==
    LET t1 == ((p[1] \div 32768) % d) * 32768 + (p[1] % 32768)
    IN  (t1 \div d) * 32768 + ((t1 % d) * 32768 + p[2] \div 32768) \div d

\* The integer square root of n < 2^30, bit by bit from the bit b down;
\* r holds the bits found.
Root15[n \in Nat, r \in Nat, b \in Nat] ==
    IF b = 0 THEN r
    ELSE IF (r + b) * (r + b) <= n THEN Root15[n, r + b, b \div 2]
    ELSE Root15[n, r, b \div 2]

\* The integer square root of n, from the estimate s.
RootFix[s \in Nat, n \in Wide] ==
    IF ~WideLe[WideMul[s, s], n] THEN RootFix[s - 1, n]
    ELSE IF WideLe[WideMul[s + 1, s + 1], n] THEN RootFix[s + 1, n]
    ELSE s

\* The integer square root of n, 2^56 <= n < 2^60: from the root s0 of
\* its high half one step of Newton's iteration, then corrected.
Root[n \in Wide] ==
    LET From[s0 \in Nat] == RootFix[(s0 * 32768 + WideDiv[n, s0]) \div 2, n]
    IN  From[Root15[n[1], 0, 16384]]

\* The power of two that brings m > 0 to 2^28 or above.
Grow[m \in Nat] == IF m < 268435456 THEN 2 * Grow[2 * m] ELSE 1

\* How many times s fits into r.
Fits[r \in Wide, s \in Nat] ==
    IF WideLe[<<0, s>>, r] THEN 1 + Fits[WideSub[r, <<0, s>>], s] ELSE 0

\* p / s for 2^28 <= s < 2^30, rounded to the nearest integer: two rounds
\* of division by a number just above s, which give too little and leave
\* a remainder each, and the count of what is left at the end.
DivRound[p \in Wide, s \in Nat] ==
    LET Part[pp \in Wide, q \in Nat] == <<q, WideSub[pp, WideMul[q, s]]>>
        Step[pp \in Wide] == Part[pp, WideDiv[pp, s \div 32768 + 1]]
        Last[b \in Nat \X Wide] == b[1] + Fits[b[2], s]
        Twice[a \in Nat \X Wide] == a[1] + Last[Step[a[2]]]
    IN  Twice[Step[WideAdd[p, <<0, s \div 2>>]]]

\* np.linalg.norm of (dx, dy), not both zero and each below 2^29 in size:
\* the pair <<f, s>> of a power of two f and the integer part s of the
\* norm of (f * dx, f * dy).
Norm[dx \in Int, dy \in Int] ==
    LET At[f \in Nat, a \in Nat, b \in Nat] ==
            <<f, Root[WideAdd[WideMul[a * f, a * f], WideMul[b * f, b * f]]]>>
    IN  At[Grow[Max2(Abs(dx), Abs(dy))], Abs(dx), Abs(dy)]

\* (a / norm) * j for the component a of the separation whose norm is nrm:
\* the real value rounded to the nearest step of a position.
Scaled[a \in Int, j \in Nat, nrm \in Wide] ==
    IF a < 0 THEN -DivRound[WideMul[(-a) * nrm[1], j], nrm[2]]
    ELSE DivRound[WideMul[a * nrm[1], j], nrm[2]]

\* The value numpy gives for 0 / 0.
NaN == [nan |-> TRUE, x |-> 0, y |-> 0]

\* vec with a guard on equal centroids: no move instead of 0 / 0.
Nudge_Guarded(c1, c2, jx, jy) ==
    LET dx == c1.x - c2.x
        dy == c1.y - c2.y
    IN  IF c1.nan \/ c2.nan THEN NaN
        ELSE IF dx = 0 /\ dy = 0 THEN [nan |-> FALSE, x |-> 0, y |-> 0]
        ELSE LET Turned[nrm \in Wide] ==
                     [nan |-> FALSE, x |-> Scaled[dy, jx, nrm], y |-> Scaled[dx, jy, nrm]]
             IN  Turned[Norm[dx, dy]]

\* vec without the division by the norm: (c1 - c2) used for dist.
Nudge_Unnormalized(c1, c2, jx, jy) ==
    LET dx == c1.x - c2.x
        dy == c1.y - c2.y
    IN  IF c1.nan \/ c2.nan \/ (dx = 0 /\ dy = 0) THEN NaN
        ELSE [nan |-> FALSE, x |-> (dy \div Unit) * jx, y |-> (dx \div Unit) * jy]

\* vec of jiggle_text for the centroids c1, c2 of the two boxes:
\* dist = (c1 - c2) / norm(c1 - c2), vec = (dist[1] * jx, dist[0] * jy).
\* Equal centroids divide 0 by 0, and a nan centroid stays nan.
Nudge(c1, c2, jx, jy) ==
    LET dx == c1.x - c2.x
        dy == c1.y - c2.y
    IN  IF c1.nan \/ c2.nan \/ (dx = 0 /\ dy = 0) THEN NaN
        ELSE LET Turned[nrm \in Wide] ==
                     [nan |-> FALSE, x |-> Scaled[dy, jx, nrm], y |-> Scaled[dx, jy, nrm]]
             IN  Turned[Norm[dx, dy]]

\* Both texts of the pair moved by + vec.
Placed_SameSign(t, c, sgn, vec) ==
    IF vec.nan
    THEN [t EXCEPT !.x = 0, !.y = 0, !.nan = TRUE,
                   !.ha = "center", !.va = "center"]
    ELSE [t EXCEPT !.x = c.x + vec.x, !.y = c.y + vec.y,
                   !.ha = "center", !.va = "center"]

\* text.set_va('center'), set_ha('center'), set_position(c + sgn * vec).
Placed(t, c, sgn, vec) ==
    IF vec.nan
    THEN [t EXCEPT !.x = 0, !.y = 0, !.nan = TRUE,
                   !.ha = "center", !.va = "center"]
    ELSE [t EXCEPT !.x = c.x + sgn * vec.x, !.y = c.y + sgn * vec.y,
                   !.ha = "center", !.va = "center"]

\* The body of "if box1.intersects(box2)" for the pair p of the list ts,
\* whose boxes have the centroids c1 and c2: text1 goes to center1 + vec
\* and text2 to center2 - vec.
MovePair(ts, p, c1, c2, vec) ==
    [i \in 1..Len(ts) |->
        IF i = p[1] THEN Placed(ts[i], c1, 1, vec)
        ELSE IF i = p[2] THEN Placed(ts[i], c2, -1, vec)
        ELSE ts[i]]

\* The background set on the first text of the list only.
WhiteBackground_FirstOnly(ts) ==
    [i \in 1..Len(ts) |-> IF i = 1 THEN [ts[i] EXCEPT !.bg = "#ffffffe0"] ELSE ts[i]]

\* txt.set_backgroundcolor('#ffffffe0') for every text of the list.
WhiteBackground(ts) == [i \in 1..Len(ts) |-> [ts[i] EXCEPT !.bg = "#ffffffe0"]]

\* Some label of the list has a nan position.
HasNan(ts) == \E i \in 1..Len(ts) : ts[i].nan

----------------------------------------------------------------------------
(* jiggle_text (common.py 363-405), one action per iteration of its outer  *)
(* loop.                                                                   *)

\* (max(lim) - min(lim)) * 0.01, in steps of a position.
JiggleStep(lim) == (Max2(lim[1], lim[2]) - Min2(lim[1], lim[2])) * (Unit \div 100)

\* The loop bound taken one too far.
LoopContinues_OneMore(i, m) == i <= m

\* "for _ in range(maxiter)" starts another iteration after i iterations.
LoopContinues(i, m) == i < m

\* The intersection test of the pair the scan stops at raises an error.
ScanRaises(ts) ==
    /\ StopPairs(ts) # {}
    /\ nanOutcome = "raise"
    /\ \E i \in {FirstPair(ts)[1], FirstPair(ts)[2]} : ts[i].nan

\* The labels jiggle_text is called with: a position and a shape, both in
\* data units.  The default of the loading labels is left / center
\* alignment.
LabelPositions == {<<0, 0>>, <<40, 0>>, <<200, 120>>}

LabelChoices ==
    {Label(q[1] * Unit, q[2] * Unit, "left", "center", 40 * Unit, 8 * Unit) :
        q \in LabelPositions}
    \cup {Label(q[1] * Unit, q[2] * Unit, "center", "bottom", 40 * Unit, 24 * Unit) :
              q \in LabelPositions}

\* The limits of the axes the labels are in.
JiggleXlims == {<<-500, 500>>}

JiggleYlims == {<<-500, 500>>, <<-200, 200>>}

\* The state of the variables of find_axis_intersection while unused.
AxisIdle == xcoeff = 0 /\ ycoeff = 0 /\ xend = None /\ yend = None

InitJiggle ==
    /\ pc = "jiggle_call"
    /\ AxisIdle
    /\ SelectorIdle
    /\ RestIdle
    /\ xlim \in JiggleXlims
    /\ ylim \in JiggleYlims
    /\ texts \in UNION {[1..n -> LabelChoices] : n \in 0..MaxTexts}
    /\ maxiter \in 0..MaxIter
    /\ iters = 0
    /\ jiggle_x = 0
    /\ jiggle_y = 0
    /\ nanOutcome = "unset"
    /\ texts0 = texts
    /\ prev = texts
    /\ moved = <<0, 0>>

\* Entry of jiggle_text: the two steps are computed from the limits.
JiggleCall ==
    /\ pc = "jiggle_call"
    /\ jiggle_x' = JiggleStep(xlim)
    /\ jiggle_y' = JiggleStep(ylim)
    /\ pc' = "jiggle_loop"
    /\ UNCHANGED <<xlim, ylim, axisVars, texts, maxiter, iters, nanOutcome,
                   texts0, prev, moved, selVars,
                   restVars>>

\* An iteration that finds an intersecting pair, moves it and gives every
\* text the white background.
JiggleResolve ==
    /\ pc = "jiggle_loop"
    /\ LoopContinues(iters, maxiter)
    /\ StopPairs(texts) # {}
    /\ ~ScanRaises(texts)
    /\ \E p \in {FirstPair(texts)} :
       \E c1 \in {Centroid(TextBox(texts[p[1]]))},
          c2 \in {Centroid(TextBox(texts[p[2]]))} :
       \E vec \in {Nudge(c1, c2, jiggle_x, jiggle_y)} :
          /\ texts' = WhiteBackground(MovePair(texts, p, c1, c2, vec))
          /\ moved' = p
          /\ IF nanOutcome = "unset" /\ vec.nan
             THEN nanOutcome' \in {"true", "false", "raise"}
             ELSE nanOutcome' = nanOutcome
    /\ prev' = texts
    /\ iters' = iters + 1
    /\ UNCHANGED <<pc, xlim, ylim, axisVars, maxiter, jiggle_x, jiggle_y, texts0,
                   selVars,
                   restVars>>

\* An iteration that finds no intersecting pair: "if no_overlap: break",
\* and jiggle_text returns.
JiggleConverge ==
    /\ pc = "jiggle_loop"
    /\ LoopContinues(iters, maxiter)
    /\ StopPairs(texts) = {}
    /\ moved' = <<0, 0>>
    /\ prev' = texts
    /\ iters' = iters + 1
    /\ pc' = "jiggle_done"
    /\ UNCHANGED <<xlim, ylim, axisVars, texts, maxiter, jiggle_x, jiggle_y,
                   nanOutcome, texts0, selVars,
                   restVars>>

\* An iteration in which the intersection test raises: the error leaves
\* jiggle_text.
JiggleRaise ==
    /\ pc = "jiggle_loop"
    /\ LoopContinues(iters, maxiter)
    /\ ScanRaises(texts)
    /\ moved' = <<0, 0>>
    /\ prev' = texts
    /\ iters' = iters + 1
    /\ pc' = "jiggle_error"
    /\ UNCHANGED <<xlim, ylim, axisVars, texts, maxiter, jiggle_x, jiggle_y,
                   nanOutcome, texts0, selVars,
                   restVars>>

\* range(maxiter) is exhausted: jiggle_text returns (None), whatever the
\* labels look like.
JiggleExhaust ==
    /\ pc = "jiggle_loop"
    /\ ~LoopContinues(iters, maxiter)
    /\ pc' = "jiggle_done"
    /\ UNCHANGED <<xlim, ylim, axisVars, jiggleVars, selVars,
                   restVars>>

NextJiggle ==
    \/ JiggleCall
    \/ JiggleResolve
    \/ JiggleConverge
    \/ JiggleRaise
    \/ JiggleExhaust

SpecJiggle == InitJiggle /\ [][NextJiggle]_vars

\* The loop is a sequential program: it takes its next step.
SpecJiggleFair == SpecJiggle /\ WF_vars(NextJiggle)

----------------------------------------------------------------------------
(* Properties of jiggle_text.                                              *)

\* No two bounding boxes of the list intersect.
NoTwoIntersect(ts) ==
    \A i, j \in 1..Len(ts) :
        i < j => ~Intersects(TextBox(ts[i]), TextBox(ts[j]))

\* The squared distance of two points, as a pair <<high, low>>.
Dist2(a, b) ==
    WideAdd[WideMul[Abs(a.x - b.x), Abs(a.x - b.x)],
            WideMul[Abs(a.y - b.y), Abs(a.y - b.y)]]

\* The position of a text.
Position(t) == [nan |-> t.nan, x |-> t.x, y |-> t.y]

\* The centroid of a text's bounding box before the last iteration.
PrevCentroid(i) == Centroid(TextBox(prev[i]))

\* The last iteration moved a pair whose boxes had finite corners and
\* distinct centroids.
MovedDistinct ==
    /\ moved # <<0, 0>>
    /\ ~prev[moved[1]].nan /\ ~prev[moved[2]].nan
    /\ PrevCentroid(moved[1]) # PrevCentroid(moved[2])

\* C5 as stated: called on labels of which no two boxes intersect,
\* jiggle_text stops after exactly one iteration and leaves every label's
\* position, alignment and background colour unchanged.
C5_OneIterationNoChange ==
    (pc = "jiggle_done" /\ NoTwoIntersect(texts0))
        => (iters = 1 /\ texts = texts0)

\* C5 amended: called on labels of which no two boxes intersect,
\* jiggle_text leaves every label unchanged, and it stops after exactly
\* one iteration when maxiter >= 1 (with maxiter = 0 it runs none).
C5_OneIterationIfAny ==
    (pc = "jiggle_done" /\ NoTwoIntersect(texts0))
        => /\ texts = texts0
           /\ maxiter >= 1 => iters = 1
           /\ maxiter = 0 => iters = 0

C5_Witness ==
    /\ pc = "jiggle_done"
    /\ Len(texts0) = 3 /\ NoTwoIntersect(texts0)
    /\ maxiter = 3 /\ iters = 1
    /\ texts = texts0

\* C6: one resolving iteration on two labels with distinct centroids puts
\* their new positions strictly farther apart than their centroids were,
\* and leaves neither label at its previous centroid.
C6_PushedApart ==
    MovedDistinct =>
        LET i == moved[1]
            j == moved[2]
        IN  /\ ~WideLe[Dist2(Position(texts[i]), Position(texts[j])),
                       Dist2(PrevCentroid(i), PrevCentroid(j))]
            /\ Position(texts[i]) # PrevCentroid(i)
            /\ Position(texts[j]) # PrevCentroid(j)

\* The call has ended, by a return or by an error.
JiggleEnded == pc \in {"jiggle_done", "jiggle_error"}

\* C7: jiggle_text never runs more than maxiter iterations of its outer
\* loop and always ends; when the iterations are used up it returns, with
\* no error and no change, whether or not boxes still intersect.
C7_Terminates ==
    /\ [](iters <= maxiter)
    /\ <>JiggleEnded
    /\ [][(pc = "jiggle_loop" /\ iters = maxiter)
            => (pc' = "jiggle_done" /\ texts' = texts)]_vars

\* All iterations were used, boxes still intersect, and the call returned.
C7_Witness ==
    /\ pc = "jiggle_done"
    /\ maxiter = 3 /\ iters = 3
    /\ moved # <<0, 0>>
    /\ ~HasNan(texts)
    /\ ~NoTwoIntersect(texts)

\* C8: when jiggle_text returns after fewer than maxiter iterations, no
\* two bounding boxes intersect.
C8_EarlyReturnNoOverlap ==
    (pc = "jiggle_done" /\ iters < maxiter) => NoTwoIntersect(texts)

\* Boxes intersected at the call, an iteration moved a pair, and the call
\* returned before the iterations were used up.
C8_Witness ==
    /\ pc = "jiggle_done"
    /\ iters = 2 /\ maxiter = 3
    /\ Len(texts) = 3
    /\ ~NoTwoIntersect(texts0)
    /\ texts # texts0
    /\ NoTwoIntersect(texts)

\* ---------------------------------------------------------------------
\* get_selector: the iterable over the components to plot.
\*
\* The returned iterable is lazy; the model keeps what a consumer needs to
\* draw the next item from it: how many items it has drawn (pos) and, for
\* itertools.combinations, the index tuple of the item drawn last.  An item
\* is an integer when combi = 1 and a tuple of integers otherwise.

\* The callers ask for single components, pairs and triples.
Arities == {1, 2, 3}

\* range(components).
Range(n) ==
    [NoSelector EXCEPT !.kind = "range", !.n = n, !.r = 1]

\* combinations(range(components), combi).
Combinations(n, r) ==
    [NoSelector EXCEPT !.kind = "combinations", !.n = n, !.r = r]

\* (i - 1 for i in select_components) when r = 1, and
\* ((i - 1 for i in j) for j in select_components) otherwise.
Generator(sel, r) ==
    [NoSelector EXCEPT !.kind = "genexpr", !.r = r, !.sel = sel]

get_selector(comps, select, r) ==
    IF select.none
    THEN IF r = 1 THEN Range(comps) ELSE Combinations(comps, r)
    ELSE Generator(select.items, r)

\* itertools.combinations: the positions of the index tuple that have not
\* reached their last value, i + n - r (i counted from 0).
Movable(it) ==
    {i \in 1..it.r : it.indices[i] # (i - 1) + it.n - it.r}

\* itertools.combinations: the first tuple is range(r); afterwards the
\* rightmost movable position is incremented and every position right of
\* it takes the value of its left neighbour plus one
\* (this variant gives them all the incremented value plus one).
NextIndices_FlatTail(it) ==
    IF it.pos = 0
    THEN [k \in 1..it.r |-> k - 1]
    ELSE LET i == CHOOSE m \in Movable(it) : \A o \in Movable(it) : o <= m
         IN  [k \in 1..it.r |->
                 IF k < i THEN it.indices[k]
                 ELSE IF k = i THEN it.indices[i] + 1
                 ELSE it.indices[i] + 2]

\* itertools.combinations: the first tuple is range(r); afterwards the
\* rightmost movable position is incremented and every position right of
\* it takes the value of its left neighbour plus one.
NextIndices(it) ==
    IF it.pos = 0
    THEN [k \in 1..it.r |-> k - 1]
    ELSE LET i == CHOOSE m \in Movable(it) : \A o \in Movable(it) : o <= m
         IN  [k \in 1..it.r |->
                 IF k < i THEN it.indices[k]
                 ELSE it.indices[i] + 1 + (k - i)]

\* i - 1 for an index, (i - 1 for i in j) for a tuple j
\* (this variant passes the entry on as it is).
Shifted_Unshifted(entry, r) ==
    entry

\* i - 1 for an index, (i - 1 for i in j) for a tuple j.
Shifted(entry, r) ==
    IF r = 1 THEN entry - 1
    ELSE [k \in 1..Len(entry) |-> entry[k] - 1]

\* Whether next() on the iterable gives an item (rather than StopIteration).
HasNext(it) ==
    CASE it.kind = "range"        -> it.pos < it.n
      [] it.kind = "combinations" ->
            IF it.pos = 0 THEN it.r <= it.n ELSE Movable(it) # {}
      [] it.kind = "genexpr"      -> it.pos < Len(it.sel)
      [] OTHER                    -> FALSE

\* The item next() gives.
NextItem(it) ==
    CASE it.kind = "range"        -> it.pos
      [] it.kind = "combinations" -> NextIndices(it)
      [] OTHER                    -> Shifted(it.sel[it.pos + 1], it.r)

\* The iterable after next() gave an item.
Advance(it) ==
    IF it.kind = "combinations"
    THEN [it EXCEPT !.pos = it.pos + 1, !.indices = NextIndices(it)]
    ELSE [it EXCEPT !.pos = it.pos + 1]

\* The entries an explicit selection is made of: 1-based component numbers,
\* some of them repeated within an entry, in descending order, or outside
\* 1..components.
SelectionEntries(r) ==
    CASE r = 1 -> {0, 1, 2, 6}
      [] r = 2 -> {<<1, 2>>, <<2, 1>>, <<3, 3>>, <<0, 6>>}
      [] OTHER -> {<<1, 2, 3>>, <<3, 1, 2>>, <<2, 2, 6>>}

RECURSIVE SeqsUpTo(_, _)
SeqsUpTo(S, n) ==
    IF n = 0 THEN {<<>>}
    ELSE LET shorter == SeqsUpTo(S, n - 1)
         IN  shorter \cup {Append(q, e) : q \in shorter, e \in S}

Selections(r) ==
    {NoSelection} \cup
    {[none |-> FALSE, items |-> q] : q \in SeqsUpTo(SelectionEntries(r), MaxSelect)}

InitSel ==
    /\ pc = "sel_call"
    /\ AxisIdle
    /\ JiggleIdle
    /\ RestIdle
    /\ xlim = <<0, 1>> /\ ylim = <<0, 1>>
    /\ components \in 0..MaxComponents
    /\ combi \in Arities
    /\ select_components \in Selections(combi)
    /\ selector = NoSelector
    /\ yielded = <<>>

\* selector = get_selector(components, select_components, combi)
GetSelector ==
    /\ pc = "sel_call"
    /\ selector' = get_selector(components, select_components, combi)
    /\ pc' = "sel_iter"
    /\ UNCHANGED <<xlim, ylim, axisVars, jiggleVars, components,
                   select_components, combi, yielded,
                   restVars>>

\* The consumer's loop takes the next item from the selector.
SelectorNext ==
    /\ pc = "sel_iter"
    /\ HasNext(selector)
    /\ yielded' = Append(yielded, NextItem(selector))
    /\ selector' = Advance(selector)
    /\ UNCHANGED <<pc, xlim, ylim, axisVars, jiggleVars, components,
                   select_components, combi,
                   restVars>>

\* The selector is exhausted and the consumer's loop ends.
SelectorStop ==
    /\ pc = "sel_iter"
    /\ ~HasNext(selector)
    /\ pc' = "sel_done"
    /\ UNCHANGED <<xlim, ylim, axisVars, jiggleVars, selVars,
                   restVars>>

NextSel == GetSelector \/ SelectorNext \/ SelectorStop

SpecSel == InitSel /\ [][NextSel]_vars

\* ---------------------------------------------------------------------
\* Properties of get_selector.

IsIncreasing(t) == \A k \in 1..(Len(t) - 1) : t[k] < t[k + 1]

\* a comes before b in lexicographic order.
LexLess(a, b) ==
    \E k \in 1..Len(a) :
        /\ a[k] < b[k]
        /\ \A m \in 1..(k - 1) : a[m] = b[m]

\* The strictly increasing tuples of r indices from 0..n-1.
AllCombinations(n, r) ==
    {t \in [1..r -> 0..(n - 1)] : IsIncreasing(t)}

SelectorUsed == pc \in {"sel_iter", "sel_done"}

\* C9: with no explicit selection the selector yields, for combi = 1, the
\* indices 0..components-1 in ascending order, and otherwise strictly
\* increasing tuples of combi indices from 0..components-1, each one after
\* its predecessor in lexicographic order (so none twice), and when it is
\* exhausted it has yielded every such tuple; with components = 4 and
\* combi = 2 it yields (0,1),(0,2),(0,3),(1,2),(1,3),(2,3).
C9_AllCombinationsInOrder ==
    (SelectorUsed /\ select_components.none) =>
        IF combi = 1
        THEN /\ Len(yielded) <= components
             /\ \A k \in 1..Len(yielded) : yielded[k] = k - 1
             /\ (pc = "sel_done") => Len(yielded) = components
        ELSE /\ \A k \in 1..Len(yielded) :
                    yielded[k] \in AllCombinations(components, combi)
             /\ \A k \in 1..(Len(yielded) - 1) :
                    LexLess(yielded[k], yielded[k + 1])
             /\ (pc = "sel_done") =>
                    {yielded[k] : k \in 1..Len(yielded)}
                        = AllCombinations(components, combi)
             /\ (pc = "sel_done" /\ components = 4 /\ combi = 2) =>
                    yielded = << <<0, 1>>, <<0, 2>>, <<0, 3>>,
                                 <<1, 2>>, <<1, 3>>, <<2, 3>> >>

\* The selector without a selection has been exhausted after it yielded the
\* four triples of four components.
C9_Witness ==
    /\ pc = "sel_done"
    /\ select_components.none
    /\ components = 4 /\ combi = 3
    /\ Len(yielded) = 4

\* C10: with an explicit selection the selector yields one item per entry
\* of the selection, in the order of the selection, each index of the entry
\* decremented by one, whatever components is and whether or not entries
\* repeat; the selection ((1,2)) with combi = 2 yields the one pair (0,1).
C10_ExplicitSelection ==
    (SelectorUsed /\ ~select_components.none) =>
        LET sel == select_components.items
        IN  /\ Len(yielded) <= Len(sel)
            /\ (pc = "sel_done") => Len(yielded) = Len(sel)
            /\ \A k \in 1..Len(yielded) :
                  IF combi = 1
                  THEN yielded[k] = sel[k] - 1
                  ELSE /\ Len(yielded[k]) = Len(sel[k])
                       /\ \A m \in 1..Len(sel[k]) :
                             yielded[k][m] = sel[k][m] - 1
            /\ (pc = "sel_done" /\ combi = 2 /\ sel = << <<1, 2>> >>) =>
                  yielded = << <<0, 1>> >>

\* The selector has been exhausted for a selection that names the same
\* entry twice, with indices that are not components of the data.
C10_Witness ==
    /\ pc = "sel_done"
    /\ ~select_components.none
    /\ combi = 2 /\ components = 1
    /\ select_components.items = << <<0, 6>>, <<0, 6>> >>
    /\ Len(yielded) = 2

\* ---------------------------------------------------------------------
\* The PCA plot functions that consume the selector
\* (src/psynlig/pca/loadings.py, src/psynlig/pca/scores.py):
\* pca_1d_loadings, pca_2d_loadings, pca_3d_loadings and pca_1d_scores,
\* pca_2d_scores, pca_3d_scores; combi is 1, 2 or 3 accordingly.
\* Each makes one figure per item of the selector and then indexes
\* pca.components_ (the scores: the columns of the scores) with the
\* indices of the item.

PlotFunctions == {"loadings", "scores"}

\* if components < 2 (3): raise ValueError; the 1D functions have no test
\* (this variant lets a PCA with one component less pass).
TooFew_OneLess(comps, r) == r >= 2 /\ comps < r - 1

\* if components < 2 (3): raise ValueError; the 1D functions have no test.
TooFew(comps, r) == r >= 2 /\ comps < r

\* numpy indexing of an axis of length n: an index in -n..n-1 is accepted
\* (a negative one counts from the end), every other raises IndexError.
IndexAccepted(i, n) == -n <= i /\ i < n

\* The indices of an item: the item itself when combi = 1.
ItemIndices(item, r) ==
    IF r = 1 THEN {item} ELSE {item[k] : k \in 1..Len(item)}

\* Indexing with every index of the item succeeds.
ItemAccepted(item, r, n) ==
    \A i \in ItemIndices(item, r) : IndexAccepted(i, n)

OutsidePlot ==
    <<xlim, ylim, axisVars, jiggleVars, scatVars, gridVars, legendVars,
      colorVars,
      loadVars>>

InitPlot ==
    /\ pc = "plot_call"
    /\ LoadingIdle
    /\ AxisIdle
    /\ JiggleIdle
    /\ xlim = <<0, 1>> /\ ylim = <<0, 1>>
    /\ plot_fn \in PlotFunctions
    /\ components \in 0..MaxComponents
    /\ combi \in Arities
    /\ select_components \in Selections(combi)
    /\ selector = NoSelector
    /\ yielded = <<>>
    /\ created = 0
    /\ raised = "none"
    /\ PairIdle
    /\ ScatterIdle
    /\ GridIdle
    /\ LegendIdle
    /\ ColorIdle

\* components = pca.n_components_; if components < combi: raise ValueError
PlotTooFew ==
    /\ pc = "plot_call"
    /\ TooFew(components, combi)
    /\ raised' = "ValueError"
    /\ pc' = "plot_error"
    /\ UNCHANGED <<OutsidePlot, selVars, plot_fn, created, pairVars>>

\* selector = get_selector(components, select_components, combi)
PlotGetSelector ==
    /\ pc = "plot_call"
    /\ ~TooFew(components, combi)
    /\ selector' = get_selector(components, select_components, combi)
    /\ pc' = "plot_loop"
    /\ UNCHANGED <<OutsidePlot, components, select_components, combi, yielded,
                   plotVars, pairVars>>

\* One pass of the loop over the selector: a figure is created and the
\* component data is indexed with the item.
PlotFigure ==
    /\ pc = "plot_loop"
    /\ HasNext(selector)
    /\ ItemAccepted(NextItem(selector), combi, components)
    /\ yielded' = Append(yielded, NextItem(selector))
    /\ selector' = Advance(selector)
    /\ created' = created + 1
    /\ UNCHANGED <<pc, OutsidePlot, components, select_components, combi,
                   plot_fn, raised, pairVars>>

\* One pass of the loop over the selector: a figure is created and indexing
\* the component data with the item raises IndexError.
PlotIndexError ==
    /\ pc = "plot_loop"
    /\ HasNext(selector)
    /\ ~ItemAccepted(NextItem(selector), combi, components)
    /\ yielded' = Append(yielded, NextItem(selector))
    /\ selector' = Advance(selector)
    /\ created' = created + 1
    /\ raised' = "IndexError"
    /\ pc' = "plot_error"
    /\ UNCHANGED <<OutsidePlot, components, select_components, combi, plot_fn,
                   pairVars>>

\* The selector is exhausted: return figures, axes.
PlotReturn ==
    /\ pc = "plot_loop"
    /\ ~HasNext(selector)
    /\ pc' = "plot_done"
    /\ UNCHANGED <<OutsidePlot, selVars, plotVars, pairVars>>

NextPlot ==
    PlotTooFew \/ PlotGetSelector \/ PlotFigure \/ PlotIndexError \/ PlotReturn

SpecPlot == InitPlot /\ [][NextPlot]_vars

\* The 1-based indices named by the explicit selection.
SelectedIndices ==
    UNION {ItemIndices(select_components.items[k], combi) :
               k \in 1..Len(select_components.items)}

\* C11: a call of a PCA plot function with an explicit selection that
\* contains a 1-based index outside 1..components (the index 0 included)
\* does not return: unless the PCA has too few components for the plot, it
\* ends in an IndexError raised where the component data is indexed.
C11_OutOfRangeFails ==
    (/\ pc \in {"plot_done", "plot_error"}
     /\ ~select_components.none
     /\ ~TooFew(components, combi)
     /\ \E i \in SelectedIndices : i < 1 \/ i > components)
        => (pc = "plot_error" /\ raised = "IndexError")

\* C12: the 2D and 3D plot functions of the loadings and of the scores raise
\* ValueError when the PCA has fewer than 2, respectively 3, components,
\* with or without an explicit selection; at that point no figure has been
\* created, get_selector has not been called and no item has been taken.
C12_TooFewComponents ==
    (pc # "plot_call" /\ combi >= 2 /\ components < combi) =>
        /\ pc = "plot_error"
        /\ raised = "ValueError"
        /\ created = 0
        /\ selector = NoSelector
        /\ yielded = <<>>

\* pca_3d_scores was called with two components and an explicit selection
\* and has raised ValueError.
C12_Witness ==
    /\ pc = "plot_error" /\ raised = "ValueError"
    /\ plot_fn = "scores" /\ combi = 3 /\ components = 2
    /\ ~select_components.none
    /\ Len(select_components.items) = 2

\* ---------------------------------------------------------------------
\* Two invocations of jiggle_text on two axes, each with its own labels,
\* with their loop iterations interleaved (common.py 363-405).
\* calls[c] is the state of invocation c: its axes' limits, its labels and
\* its locals.  The behaviour of the intersection test on nan boxes is that
\* of the build, the same for both.

\* What one pass of the loop body does to the labels ts with the steps
\* jx, jy: it leaves by "break", it raises, or it moves a pair.
JiggleIteration(ts, jx, jy) ==
    IF StopPairs(ts) = {} THEN [texts |-> ts, exit |-> "break"]
    ELSE IF ScanRaises(ts) THEN [texts |-> ts, exit |-> "raise"]
    ELSE LET p   == FirstPair(ts)
             c1  == Centroid(TextBox(ts[p[1]]))
             c2  == Centroid(TextBox(ts[p[2]]))
             vec == Nudge(c1, c2, jx, jy)
         IN  [texts |-> WhiteBackground(MovePair(ts, p, c1, c2, vec)),
              exit  |-> "none"]

\* jiggle_text run on its own: the labels and the way it ends after at most
\* n passes of the loop.
RECURSIVE RunAlone(_, _, _, _)
RunAlone(ts, jx, jy, n) ==
    IF ~LoopContinues(0, n) THEN [texts |-> ts, pc |-> "done"]
    ELSE LET r == JiggleIteration(ts, jx, jy)
         IN  IF r.exit = "break" THEN [texts |-> ts, pc |-> "done"]
             ELSE IF r.exit = "raise" THEN [texts |-> ts, pc |-> "error"]
             ELSE RunAlone(r.texts, jx, jy, n - 1)

\* The axes an invocation reads its limits from: the axi it was given
\* (this variant: the axes of the first invocation).
OwnAxes_First(c) == 1

\* The axes an invocation reads its limits from: the axi it was given.
OwnAxes(c) == c

\* The labels of the two invocations: overlapping ones, and identical ones
\* (equal centroids).
PairChoices ==
    {Label(0, 0, "left", "center", 40 * Unit, 8 * Unit),
     Label(0, 0, "center", "bottom", 40 * Unit, 24 * Unit)}

PairTexts == UNION {[1..n -> PairChoices] : n \in 0..MaxPairTexts}

\* The limits of the two axes.
PairYlim(c) == IF c = 1 THEN <<-500, 500>> ELSE <<-200, 200>>

NewCall(c, ts) ==
    [xlim |-> <<-500, 500>>, ylim |-> PairYlim(c),
     texts0 |-> ts, texts |-> ts, maxiter |-> MaxIter, iters |-> 0,
     jiggle_x |-> 0, jiggle_y |-> 0, pc |-> "call"]

OutsidePair == <<xlim, ylim, axisVars, texts, maxiter, iters, jiggle_x, jiggle_y,
                 texts0, prev, moved, selVars, plotVars, scatVars, gridVars,
                 legendVars, colorVars,
      loadVars>>

InitPair ==
    /\ pc = "pair_run"
    /\ LoadingIdle
    /\ AxisIdle
    /\ SelectorIdle
    /\ PlotIdle
    /\ ScatterIdle
    /\ GridIdle
    /\ LegendIdle
    /\ ColorIdle
    /\ xlim = <<0, 1>> /\ ylim = <<0, 1>>
    /\ texts = <<>> /\ texts0 = <<>> /\ prev = <<>>
    /\ maxiter = 0 /\ iters = 0
    /\ jiggle_x = 0 /\ jiggle_y = 0
    /\ moved = <<0, 0>>
    /\ nanOutcome \in {"true", "false", "raise"}
    /\ \E ts1 \in PairTexts, ts2 \in PairTexts :
          calls = <<NewCall(1, ts1), NewCall(2, ts2)>>
    /\ overlapped = FALSE

\* The other invocation is between two passes of its loop.
OtherMidLoop(c) ==
    \E o \in DOMAIN calls :
        o # c /\ calls[o].pc = "loop" /\ calls[o].iters > 0

\* Entry of invocation c: the two steps are computed from its axes' limits.
PairCall(c) ==
    /\ calls[c].pc = "call"
    /\ calls' = [calls EXCEPT ![c].jiggle_x = JiggleStep(calls[OwnAxes(c)].xlim),
                              ![c].jiggle_y = JiggleStep(calls[OwnAxes(c)].ylim),
                              ![c].pc = "loop"]
    /\ UNCHANGED <<pc, OutsidePair, nanOutcome, overlapped>>

\* A pass of the loop of invocation c that moves a pair of its labels.
PairResolve(c) ==
    /\ calls[c].pc = "loop"
    /\ LoopContinues(calls[c].iters, calls[c].maxiter)
    /\ \E r \in {JiggleIteration(calls[c].texts, calls[c].jiggle_x,
                                 calls[c].jiggle_y)} :
          /\ r.exit = "none"
          /\ calls' = [calls EXCEPT ![c].texts = r.texts,
                                    ![c].iters = calls[c].iters + 1]
    /\ overlapped' = (overlapped \/ OtherMidLoop(c))
    /\ UNCHANGED <<pc, OutsidePair, nanOutcome>>

\* A pass of the loop of invocation c that finds no intersecting pair.
PairConverge(c) ==
    /\ calls[c].pc = "loop"
    /\ LoopContinues(calls[c].iters, calls[c].maxiter)
    /\ StopPairs(calls[c].texts) = {}
    /\ calls' = [calls EXCEPT ![c].iters = calls[c].iters + 1,
                              ![c].pc = "done"]
    /\ UNCHANGED <<pc, OutsidePair, nanOutcome, overlapped>>

\* A pass of the loop of invocation c in which the intersection test raises.
PairRaise(c) ==
    /\ calls[c].pc = "loop"
    /\ LoopContinues(calls[c].iters, calls[c].maxiter)
    /\ ScanRaises(calls[c].texts)
    /\ calls' = [calls EXCEPT ![c].iters = calls[c].iters + 1,
                              ![c].pc = "error"]
    /\ UNCHANGED <<pc, OutsidePair, nanOutcome, overlapped>>

\* range(maxiter) of invocation c is exhausted: it returns.
PairExhaust(c) ==
    /\ calls[c].pc = "loop"
    /\ ~LoopContinues(calls[c].iters, calls[c].maxiter)
    /\ calls' = [calls EXCEPT ![c].pc = "done"]
    /\ UNCHANGED <<pc, OutsidePair, nanOutcome, overlapped>>

NextPair ==
    \E c \in DOMAIN calls :
        \/ PairCall(c)
        \/ PairResolve(c)
        \/ PairConverge(c)
        \/ PairRaise(c)
        \/ PairExhaust(c)

SpecPair == InitPair /\ [][NextPair]_vars

\* C13: whatever the order in which the passes of two invocations on
\* different axes and different labels are interleaved, each invocation
\* ends as it ends when run on its own: with the same label positions,
\* alignments and background colours, and in the same way.
C13_NoInterference ==
    \A c \in DOMAIN calls :
        calls[c].pc \in {"done", "error"} =>
            LET alone == RunAlone(calls[c].texts0, JiggleStep(calls[c].xlim),
                                  JiggleStep(calls[c].ylim), calls[c].maxiter)
            IN  calls[c].texts = alone.texts /\ calls[c].pc = alone.pc

\* Both invocations have returned after moving their labels, and their
\* passes were interleaved.
C13_Witness ==
    /\ pc = "pair_run"
    /\ overlapped
    /\ \A c \in DOMAIN calls :
          /\ calls[c].pc = "done"
          /\ calls[c].iters >= 2
          /\ calls[c].texts # calls[c].texts0

\* ---------------------------------------------------------------------
\* The viewport under the solver and the decluttering loop.

\* A call of find_axis_intersection or a call of jiggle_text on some axes.
InitCore == InitAxis \/ InitJiggle

NextCore == NextAxis \/ NextJiggle

SpecCore == InitCore /\ [][NextCore]_vars

\* C14: no step of find_axis_intersection and no step of jiggle_text
\* changes the limits of the axes: the limits after a call are the limits
\* before it.
C14_ViewportUnchanged ==
    [][xlim' = xlim /\ ylim' = ylim]_vars

\* jiggle_text has returned after it moved labels, on axes whose limits
\* are still the ones its steps were computed from at entry; its y limits
\* are not the x limits.
C14_Witness ==
    /\ pc = "jiggle_done"
    /\ texts # texts0
    /\ ylim # xlim
    /\ jiggle_x = JiggleStep(xlim) /\ jiggle_y = JiggleStep(ylim)

\* ---------------------------------------------------------------------
\* The class labels of the data points and their colours (colors.py 9-82),
\* as the scatter plots and generate_class_colors use them.

\* generate_colors: the number of colours it returns for ncolors.
ColorCount(ncolors, given) ==
    IF given THEN ncolors
    ELSE IF ncolors <= 10 THEN 10
    ELSE IF ncolors <= 20 THEN 20
    ELSE ncolors

\* set(class_data)
Classes(cd) == {cd[k] : k \in 1..Len(cd)}

\* The row that index i selects in an array of n rows.
Row(i, n) == IF i < 0 THEN n + i ELSE i

\* np.where(class_data == i)[0]: the positions (from 0) with label i.
Where(cd, i) == {k - 1 : k \in {m \in 1..Len(cd) : cd[m] = i}}

\* The class labels of the model.
ClassLabels == {-1, 0, 1, 10}

ClassData ==
    {NoSelection} \cup
    {[none |-> FALSE, items |-> q] : q \in SeqsUpTo(ClassLabels, MaxPoints)}

\* generate_class_colors(class_data, cmap) raises IndexError: class_data is
\* not None and a class label is no index of the array of colours
\* ("color_labels[i] = color_class[i]").
ClassColorsRaise(cd, given) ==
    /\ ~cd.none
    /\ \E i \in Classes(cd.items) :
          ~IndexAccepted(i, ColorCount(Cardinality(Classes(cd.items)), given))

\* ---------------------------------------------------------------------
\* generate_3d_scatter (src/psynlig/scatter.py 390-446): one 3D scatter
\* plot per combination of three of the given variables.  A variable is a
\* column of the data, named by a number; a figure is described by the
\* three variables on its axes.  The list axes is appended to together
\* with the list figures and has the same length.  class_data is passed on
\* to plot_3d_scatter, and so is cmap_class when it is among the kwargs;
\* the colours and dicts that plot_3d_scatter gets from
\* generate_class_colors are locals of each call and are not kept.

\* scipy.special.comb(n, k, exact=True): the binomial coefficient.
RECURSIVE Comb(_, _)
Comb(n, k) ==
    IF k > n THEN 0
    ELSE IF k = 0 THEN 1
    ELSE (n * Comb(n - 1, k - 1)) \div k

\* The variable lists of the model: n columns in ascending or in
\* descending order.
VariableLists ==
    UNION {{[k \in 1..n |-> k], [k \in 1..n |-> n + 1 - k]} :
               n \in 0..MaxVariables}

\* The tuple combinations(variables, 3) gives for an index tuple.
Pooled(pool, indices) ==
    [k \in 1..Len(indices) |-> pool[indices[k] + 1]]

OutsideScatter ==
    <<xlim, ylim, axisVars, jiggleVars, selVars, plot_fn, created, pairVars,
      gridVars, legendVars, loadVars>>

InitScatter ==
    /\ pc = "scatter_call"
    /\ LoadingIdle
    /\ AxisIdle
    /\ JiggleIdle
    /\ SelectorIdle
    /\ PlotIdle
    /\ PairIdle
    /\ GridIdle
    /\ LegendIdle
    /\ class_data \in ClassData
    /\ cmap_given \in BOOLEAN
    /\ color_class = Unset
    /\ color_labels = EmptyDict /\ idx_class = EmptyDict
    /\ xlim = <<0, 1>> /\ ylim = <<0, 1>>
    /\ variables \in VariableLists
    /\ max_plots \in -1..MaxPlots
    /\ warned = FALSE
    /\ figures = <<>>
    /\ combos = NoSelector

\* if len(variables) < 3: raise ValueError
ScatterTooFew ==
    /\ pc = "scatter_call"
    /\ Len(variables) < 3
    /\ raised' = "ValueError"
    /\ pc' = "scatter_error"
    /\ UNCHANGED <<OutsideScatter, scatVars, colorVars>>

\* nplots = comb(len(variables), 3, exact=True); if nplots > max_plots:
\* warnings.warn(msg); return figures, axes
ScatterTooMany ==
    /\ pc = "scatter_call"
    /\ Len(variables) >= 3
    /\ Comb(Len(variables), 3) > max_plots
    /\ warned' = TRUE
    /\ pc' = "scatter_done"
    /\ UNCHANGED <<OutsideScatter, raised, variables, max_plots, figures, combos,
                   colorVars>>

\* The loop over combinations(variables, 3) is entered.
ScatterStart ==
    /\ pc = "scatter_call"
    /\ Len(variables) >= 3
    /\ ~(Comb(Len(variables), 3) > max_plots)
    /\ combos' = Combinations(Len(variables), 3)
    /\ pc' = "scatter_loop"
    /\ UNCHANGED <<OutsideScatter, raised, variables, max_plots, warned, figures,
                   colorVars>>

\* One pass of the loop: plot_3d_scatter gets the class colours and makes
\* the figure of the next combination, which is appended to figures (and
\* its axes to axes).
ScatterPlot ==
    /\ pc = "scatter_loop"
    /\ HasNext(combos)
    /\ ~ClassColorsRaise(class_data, cmap_given)
    /\ figures' = Append(figures, Pooled(variables, NextItem(combos)))
    /\ combos' = Advance(combos)
    /\ UNCHANGED <<pc, OutsideScatter, raised, variables, max_plots, warned,
                   colorVars>>

\* One pass of the loop in which generate_class_colors, the first call of
\* plot_3d_scatter, raises IndexError: no figure is made and
\* generate_3d_scatter returns nothing.
ScatterPlotFails ==
    /\ pc = "scatter_loop"
    /\ HasNext(combos)
    /\ ClassColorsRaise(class_data, cmap_given)
    /\ combos' = Advance(combos)
    /\ raised' = "IndexError"
    /\ pc' = "scatter_error"
    /\ UNCHANGED <<OutsideScatter, variables, max_plots, warned, figures,
                   colorVars>>

\* The combinations are exhausted: return figures, axes.
ScatterReturn ==
    /\ pc = "scatter_loop"
    /\ ~HasNext(combos)
    /\ pc' = "scatter_done"
    /\ UNCHANGED <<OutsideScatter, raised, scatVars, colorVars>>

NextScatter ==
    \/ ScatterTooFew
    \/ ScatterTooMany
    \/ ScatterStart
    \/ ScatterPlot
    \/ ScatterPlotFails
    \/ ScatterReturn

SpecScatter == InitScatter /\ [][NextScatter]_vars

\* The triples of positions 0..n-1, strictly increasing.
Triples(n) == AllCombinations(n, 3)

\* The k-th triple of positions in lexicographic order.
TripleAt(n, k) ==
    CHOOSE t \in Triples(n) :
        Cardinality({u \in Triples(n) : LexLess(u, t)}) = k - 1

\* C15: generate_3d_scatter raises ValueError for fewer than 3 variables
\* and makes no figure; otherwise, when the number of combinations of three
\* variables exceeds max_plots, it warns, makes no figure and returns empty
\* lists; otherwise it does not warn and returns one figure for each
\* combination of three variables, in lexicographic order of their
\* positions in the list.
C15_Scatter3d ==
    pc \in {"scatter_loop", "scatter_done", "scatter_error"} =>
        LET n == Len(variables)
        IN  IF n < 3
            THEN pc = "scatter_error" /\ raised = "ValueError" /\ figures = <<>>
            ELSE /\ raised = "none"
                 /\ IF Cardinality(Triples(n)) > max_plots
                    THEN pc = "scatter_done" /\ warned /\ figures = <<>>
                    ELSE /\ ~warned
                         /\ Len(figures) <= Cardinality(Triples(n))
                         /\ \A k \in 1..Len(figures) :
                               figures[k] = Pooled(variables, TripleAt(n, k))
                         /\ (pc = "scatter_done") =>
                               Len(figures) = Cardinality(Triples(n))

\* ---------------------------------------------------------------------
\* create_fig_and_axes (common.py 102-148): the figures and the grid of
\* axes for nplots plots.  An axes is described by the figure it is in
\* (figures are numbered from 1) and by whether it is on.

\* GRID: the rows and columns of the figure for 1..12 plots.
GRID ==
    << <<1, 1>>, <<1, 2>>, <<1, 3>>, <<2, 2>>, <<2, 3>>, <<3, 2>>,
       <<3, 3>>, <<2, 4>>, <<3, 3>>, <<2, 5>>, <<3, 4>>, <<3, 4>> >>

\* GRID.get(nplots, (4, 4))
GridGet(np) == IF np \in DOMAIN GRID THEN GRID[np] ELSE <<4, 4>>

\* The rows and columns used: the given ones if both are given.
GridShape(np, nr, nc) ==
    IF nr = Unset \/ nc = Unset THEN GridGet(np) ELSE <<nr, nc>>

\* ceil(a / b) for a >= 0 and b > 0.
Ceil(a, b) == (a + b - 1) \div b

\* The number of figures for np plots on figures of the given shape.
FigureCount(np, shape) ==
    LET per_figure == shape[1] * shape[2]
    IN  IF np > per_figure THEN Ceil(np, per_figure) ELSE 1

\* plt.subplots(nrows=1, ncols=1) returns the one Axes itself, not an
\* array of Axes (squeeze=True is the default of matplotlib).
ReturnsSingleAxes(shape) == shape = <<1, 1>>

\* The list axes after the loop that switches the extra ones off:
\* per_figure axes for each figure, those from index nplots on are off.
AxesList(np, nf, per_figure) ==
    [k \in 1..(nf * per_figure) |->
        [figure |-> ((k - 1) \div per_figure) + 1, on |-> ~(k - 1 >= np)]]

GridInputs == {Unset} \cup 1..MaxGridSide

OutsideGrid ==
    <<xlim, ylim, axisVars, jiggleVars, selVars, plot_fn, created, pairVars,
      scatVars, legendVars, colorVars,
      loadVars>>

InitGrid ==
    /\ pc = "grid_call"
    /\ LoadingIdle
    /\ AxisIdle /\ JiggleIdle /\ SelectorIdle /\ PlotIdle /\ PairIdle
    /\ ScatterIdle /\ LegendIdle /\ ColorIdle
    /\ xlim = <<0, 1>> /\ ylim = <<0, 1>>
    /\ nplots \in 0..MaxNplots
    /\ nrows \in GridInputs
    /\ ncols \in GridInputs
    /\ nfigures = 0
    /\ axes = <<>>

\* create_fig_and_axes(nplots, nrows, ncols) runs to its return.
CreateFigAndAxes ==
    /\ pc = "grid_call"
    /\ \E shape \in {GridShape(nplots, nrows, ncols)} :
          /\ ~ReturnsSingleAxes(shape)
          /\ nrows' = shape[1]
          /\ ncols' = shape[2]
          /\ nfigures' = FigureCount(nplots, shape)
          /\ axes' = AxesList(nplots, FigureCount(nplots, shape),
                              shape[1] * shape[2])
    /\ pc' = "grid_done"
    /\ UNCHANGED <<OutsideGrid, raised, nplots>>

\* create_fig_and_axes(nplots, nrows, ncols) with a grid of one axes:
\* axi.flatten() on the Axes that plt.subplots returned for the first
\* figure raises AttributeError.
CreateFigAndAxesFails ==
    /\ pc = "grid_call"
    /\ \E shape \in {GridShape(nplots, nrows, ncols)} :
          /\ ReturnsSingleAxes(shape)
          /\ nrows' = shape[1]
          /\ ncols' = shape[2]
    /\ nfigures' = 1
    /\ raised' = "AttributeError"
    /\ pc' = "grid_error"
    /\ UNCHANGED <<OutsideGrid, nplots, axes>>

NextGrid == CreateFigAndAxes \/ CreateFigAndAxesFails

SpecGrid == InitGrid /\ [][NextGrid]_vars

\* C16: for nplots >= 1, create_fig_and_axes returns
\* ceil(nplots / (nrows * ncols)) figures, at least one, each with
\* nrows * ncols axes, so at least nplots axes in all; the first nplots axes
\* are on and every later one is off, and no figure has more than
\* nrows * ncols plots.
C16_FiguresAndAxes ==
    (pc \in {"grid_done", "grid_error"} /\ nplots >= 1) =>
        /\ pc = "grid_done"
        /\ nfigures >= 1
        /\ nfigures = Ceil(nplots, nrows * ncols)
        /\ Len(axes) = nfigures * nrows * ncols
        /\ Len(axes) >= nplots
        /\ \A k \in 1..Len(axes) : axes[k].on <=> k <= nplots
        /\ \A f \in 1..nfigures :
              /\ Cardinality({k \in 1..Len(axes) : axes[k].figure = f})
                     = nrows * ncols
              /\ Cardinality({k \in 1..Len(axes) :
                                 axes[k].figure = f /\ axes[k].on})
                     <= nrows * ncols

\* ---------------------------------------------------------------------
\* generate_1d_scatter and generate_2d_scatter (scatter.py 153-329): one
\* scatter plot per variable, respectively per pair of variables, on the
\* axes made by create_fig_and_axes, with a legend on some of them.
\* handles says whether plot_scatter returns legend entries (patches and
\* labels): it does when class data with a label is given, and may do
\* otherwise (outliers, the lines of generate_2d_scatter).  class_data and
\* cmap_class are passed on to plot_scatter, which calls
\* generate_class_colors first.

\* The number of plots: len(variables), or comb(len(variables), 2).
PlotCount(fn, vs) == IF fn = "1d" THEN Len(vs) ELSE Comb(Len(vs), 2)

OutsideLegend ==
    <<xlim, ylim, axisVars, jiggleVars, selVars, plot_fn, created, pairVars,
      max_plots, warned, figures, combos, colorVars,
      loadVars>>

\* The class data given to the scatter generators: None, no data point,
\* or one data point with any of the class labels.
LegendClassData == {cd \in ClassData : cd.none \/ Len(cd.items) <= 1}

InitLegend ==
    /\ pc = "legend_call"
    /\ LoadingIdle
    /\ AxisIdle /\ JiggleIdle /\ SelectorIdle /\ PlotIdle /\ PairIdle
    /\ class_data \in LegendClassData
    /\ cmap_given \in BOOLEAN
    /\ color_class = Unset
    /\ color_labels = EmptyDict /\ idx_class = EmptyDict
    /\ xlim = <<0, 1>> /\ ylim = <<0, 1>>
    /\ max_plots = 0 /\ warned = FALSE /\ figures = <<>> /\ combos = NoSelector
    /\ variables \in VariableLists
    /\ scatter_fn \in {"1d", "2d"}
    /\ nrows \in GridInputs
    /\ ncols \in GridInputs
    /\ show_legend \in BOOLEAN
    /\ show_legend0 = show_legend
    /\ handles \in (IF class_data.none \/ class_data.items = <<>>
                    THEN BOOLEAN ELSE {TRUE})
    /\ nplots = 0 /\ nfigures = 0 /\ axes = <<>>
    /\ plot_i = 0 /\ fig = 0
    /\ legends = {}

\* nplots = ...; figures, axes = create_fig_and_axes(nplots, nrows=nrows,
\* ncols=ncols, ...)
LegendCreateAxes ==
    /\ pc = "legend_call"
    /\ \E np \in {PlotCount(scatter_fn, variables)} :
       \E shape \in {GridShape(np, nrows, ncols)} :
          /\ ~ReturnsSingleAxes(shape)
          /\ nplots' = np
          /\ nfigures' = FigureCount(np, shape)
          /\ axes' = AxesList(np, FigureCount(np, shape), shape[1] * shape[2])
    /\ pc' = "legend_loop"
    /\ UNCHANGED <<OutsideLegend, raised, variables, nrows, ncols, legendVars>>

\* The call of create_fig_and_axes raises (a grid of one axes): plt.subplots
\* has made the first figure when axi.flatten() raises AttributeError.
LegendCreateAxesFails ==
    /\ pc = "legend_call"
    /\ \E np \in {PlotCount(scatter_fn, variables)} :
          /\ ReturnsSingleAxes(GridShape(np, nrows, ncols))
          /\ nplots' = np
    /\ nfigures' = 1
    /\ raised' = "AttributeError"
    /\ pc' = "legend_error"
    /\ UNCHANGED <<OutsideLegend, variables, nrows, ncols, axes, legendVars>>

\* One pass of the loop of generate_1d_scatter: show_legend is set to
\* whether axes[i] is in another figure than the axes before it, the plot
\* is made, and the legend is added if show_legend and patches and labels.
LegendPlot1d ==
    /\ pc = "legend_loop"
    /\ scatter_fn = "1d"
    /\ plot_i < nplots
    /\ ~ClassColorsRaise(class_data, cmap_given)
    /\ \E new_figure \in {axes[plot_i + 1].figure # fig} :
          /\ show_legend' = new_figure
          /\ fig' = IF new_figure THEN axes[plot_i + 1].figure ELSE fig
          /\ legends' = IF new_figure /\ handles
                        THEN legends \cup {plot_i + 1} ELSE legends
    /\ plot_i' = plot_i + 1
    /\ UNCHANGED <<pc, OutsideLegend, raised, variables, gridVars, scatter_fn,
                   handles, show_legend0>>

\* One pass of the loop of generate_2d_scatter: show_legend_ax is set to
\* whether axes[i] is in another figure than the axes before it, the plot
\* is made, and the legend is added if show_legend and show_legend_ax and
\* patches and labels.
LegendPlot2d ==
    /\ pc = "legend_loop"
    /\ scatter_fn = "2d"
    /\ plot_i < nplots
    /\ ~ClassColorsRaise(class_data, cmap_given)
    /\ \E show_legend_ax \in {axes[plot_i + 1].figure # fig} :
          /\ fig' = IF show_legend_ax THEN axes[plot_i + 1].figure ELSE fig
          /\ legends' = IF show_legend /\ show_legend_ax /\ handles
                        THEN legends \cup {plot_i + 1} ELSE legends
    /\ plot_i' = plot_i + 1
    /\ UNCHANGED <<pc, OutsideLegend, raised, variables, gridVars, scatter_fn,
                   show_legend, handles, show_legend0>>

\* One pass of the loop in which generate_class_colors, the first call of
\* plot_scatter, raises IndexError: fig was set, and in generate_1d_scatter
\* show_legend too, no plot and no legend is made, and nothing is returned.
LegendPlotFails ==
    /\ pc = "legend_loop"
    /\ plot_i < nplots
    /\ ClassColorsRaise(class_data, cmap_given)
    /\ \E new_figure \in {axes[plot_i + 1].figure # fig} :
          /\ show_legend' = IF scatter_fn = "1d" THEN new_figure ELSE show_legend
          /\ fig' = IF new_figure THEN axes[plot_i + 1].figure ELSE fig
    /\ raised' = "IndexError"
    /\ pc' = "legend_error"
    /\ UNCHANGED <<OutsideLegend, variables, gridVars, scatter_fn, handles,
                   plot_i, legends, show_legend0>>

\* The loop is over: return figures, axes.
LegendReturn ==
    /\ pc = "legend_loop"
    /\ ~(plot_i < nplots)
    /\ pc' = "legend_done"
    /\ UNCHANGED <<OutsideLegend, raised, variables, gridVars, legendVars>>

NextLegend ==
    \/ LegendCreateAxes
    \/ LegendCreateAxesFails
    \/ LegendPlot1d
    \/ LegendPlot2d
    \/ LegendPlotFails
    \/ LegendReturn

SpecLegend == InitLegend /\ [][NextLegend]_vars

\* C17: generate_1d_scatter and generate_2d_scatter give an axes a legend
\* only when they were called with show_legend = True, and then to the
\* first axes of a figure only, so to at most one per figure.
C17_LegendOnlyIfAsked ==
    (pc \in {"legend_loop", "legend_done"}) =>
        /\ (legends # {}) => show_legend0
        /\ \A k \in legends :
              /\ k \in 1..Len(axes)
              /\ \A j \in 1..(k - 1) : axes[j].figure # axes[k].figure
        /\ \A k \in legends, j \in legends :
              axes[j].figure = axes[k].figure => j = k

\* ---------------------------------------------------------------------
\* generate_class_colors (src/psynlig/colors.py 47-82): a colour and the
\* positions of its data points for every class label.  A colour is named
\* by its row in the array of colours that generate_colors returns.

OutsideColors ==
    <<xlim, ylim, axisVars, jiggleVars, selVars, plot_fn, created, pairVars,
      scatVars, gridVars, legendVars,
      loadVars>>

InitColors ==
    /\ pc = "colors_call"
    /\ LoadingIdle
    /\ AxisIdle /\ JiggleIdle /\ SelectorIdle /\ PlotIdle /\ PairIdle
    /\ ScatterIdle /\ GridIdle /\ LegendIdle
    /\ xlim = <<0, 1>> /\ ylim = <<0, 1>>
    /\ class_data \in ClassData
    /\ cmap_given \in BOOLEAN
    /\ color_class = Unset
    /\ color_labels = EmptyDict
    /\ idx_class = EmptyDict

\* generate_class_colors(None, cmap) returns None and the two empty dicts.
GenerateClassColorsNone ==
    /\ pc = "colors_call"
    /\ class_data.none
    /\ pc' = "colors_done"
    /\ UNCHANGED <<OutsideColors, raised, colorVars>>

\* generate_class_colors(class_data, cmap) fills the two dicts and returns.
GenerateClassColors ==
    /\ pc = "colors_call"
    /\ ~class_data.none
    /\ \E classes \in {Classes(class_data.items)} :
       \E n \in {ColorCount(Cardinality(classes), cmap_given)} :
          /\ \A i \in classes : IndexAccepted(i, n)
          /\ color_class' = n
          /\ color_labels' = [i \in classes |-> Row(i, n)]
          /\ idx_class' = [i \in classes |-> Where(class_data.items, i)]
    /\ pc' = "colors_done"
    /\ UNCHANGED <<OutsideColors, raised, class_data, cmap_given>>

\* generate_class_colors(class_data, cmap) with a class label that is no
\* index of the array of colours: color_class[i] raises IndexError.
GenerateClassColorsFails ==
    /\ pc = "colors_call"
    /\ ~class_data.none
    /\ \E classes \in {Classes(class_data.items)} :
       \E n \in {ColorCount(Cardinality(classes), cmap_given)} :
          \E i \in classes : ~IndexAccepted(i, n)
    /\ raised' = "IndexError"
    /\ pc' = "colors_error"
    /\ UNCHANGED <<OutsideColors, colorVars>>

NextColors ==
    GenerateClassColorsNone \/ GenerateClassColors \/ GenerateClassColorsFails

SpecColors == InitColors /\ [][NextColors]_vars

\* C18: for class_data None generate_class_colors returns None and two
\* empty dicts; for every other class_data it returns, with an entry in
\* color_labels and in idx_class for every distinct label, idx_class[i]
\* being the set of positions whose label is i, so that these sets are
\* pairwise disjoint and cover all positions.
C18_ClassColors ==
    (pc \in {"colors_done", "colors_error"}) =>
        IF class_data.none
        THEN /\ pc = "colors_done"
             /\ color_class = Unset
             /\ color_labels = EmptyDict /\ idx_class = EmptyDict
        ELSE LET cd == class_data.items
             IN  /\ pc = "colors_done"
                 /\ DOMAIN color_labels = Classes(cd)
                 /\ DOMAIN idx_class = Classes(cd)
                 /\ \A i \in Classes(cd) :
                       idx_class[i] = {k \in 0..(Len(cd) - 1) : cd[k + 1] = i}
                 /\ \A i \in Classes(cd), j \in Classes(cd) :
                       i # j => idx_class[i] \cap idx_class[j] = {}
                 /\ UNION {idx_class[i] : i \in Classes(cd)}
                        = 0..(Len(cd) - 1)

\* ---------------------------------------------------------------------
\* Properties of find_axis_intersection for directions with both
\* coefficients non-zero.

BothNonZero == xcoeff # 0 /\ ycoeff # 0

\* C19: for a direction with both coefficients non-zero, a point returned
\* by find_axis_intersection lies ahead of the origin along the direction:
\* xcoeff * xend + ycoeff * yend > 0 (the denominators of xend and yend are
\* positive).
C19_AheadOfOrigin ==
    (pc = "axis_done" /\ BothNonZero /\ ~IsNone(xend)) =>
        /\ ~IsNone(yend)
        /\ xcoeff * xend[1] * yend[2] + ycoeff * yend[1] * xend[2] > 0

\* Viewport (-1, 1, -1, 1) and direction (-1, -2): the line meets the
\* bottom at (-1/2, -1) and the top at (1/2, 1); the point returned is the
\* one at the bottom.
C19_Witness ==
    /\ pc = "axis_done"
    /\ xlim = <<-1, 1>> /\ ylim = <<-1, 1>>
    /\ xcoeff = -1 /\ ycoeff = -2
    /\ xend = Rat(-1, 2) /\ yend = Num(-1)

\* The candidate on boundary line k, counted in the order left, bottom,
\* right, top.
CandidateOn(k) ==
    CASE k = 1 -> <<Num(ViewXmin), Rat(ycoeff * ViewXmin, xcoeff)>>
      [] k = 2 -> <<Rat(xcoeff * ViewYmin, ycoeff), Num(ViewYmin)>>
      [] k = 3 -> <<Num(ViewXmax), Rat(ycoeff * ViewXmax, xcoeff)>>
      [] OTHER -> <<Rat(xcoeff * ViewYmax, ycoeff), Num(ViewYmax)>>

\* The candidate on line k lies on the viewport's boundary and ahead of the
\* origin.
AcceptedOn(k) ==
    LET c == CandidateOn(k)
    IN  /\ RLe(Num(ViewXmin), c[1]) /\ RLe(c[1], Num(ViewXmax))
        /\ RLe(Num(ViewYmin), c[2]) /\ RLe(c[2], Num(ViewYmax))
        /\ xcoeff * c[1][1] * c[2][2] + ycoeff * c[2][1] * c[1][2] > 0

\* C20: for a direction with both coefficients non-zero the result of
\* find_axis_intersection is the candidate of the last boundary line, in
\* the order left, bottom, right, top, whose candidate is accepted, and
\* (None, None) when none is.
C20_LastAcceptedWins ==
    (pc = "axis_done" /\ BothNonZero) =>
        LET accepted == {k \in 1..4 : AcceptedOn(k)}
        IN  IF accepted = {}
            THEN xend = None /\ yend = None
            ELSE \E k \in accepted :
                    /\ \A j \in accepted : j <= k
                    /\ <<xend, yend>> = CandidateOn(k)

\* Viewport (1, 2, -2, 2) and direction (2, 1): the candidates on the left,
\* (1, 1/2), and on the right, (2, 1), are both accepted and differ; the
\* point returned is the one on the right.
C20_Witness ==
    /\ pc = "axis_done"
    /\ xlim = <<1, 2>> /\ ylim = <<-2, 2>>
    /\ xcoeff = 2 /\ ycoeff = 1
    /\ AcceptedOn(1) /\ AcceptedOn(3)
    /\ CandidateOn(1) # CandidateOn(3)
    /\ xend = Num(2) /\ yend = Num(1)

\* ---------------------------------------------------------------------
\* Properties of one iteration of jiggle_text.

\* The displacement of the moved label i by the last iteration: its new
\* position minus the centroid its box had.
Displacement(i) ==
    [x |-> texts[i].x - PrevCentroid(i).x, y |-> texts[i].y - PrevCentroid(i).y]

\* The separation of the centroids of the moved pair before the move.
Separation ==
    [x |-> PrevCentroid(moved[1]).x - PrevCentroid(moved[2]).x,
     y |-> PrevCentroid(moved[1]).y - PrevCentroid(moved[2]).y]

\* The size of the dot product of the vectors d and v, as a pair
\* <<high, low>>.
DotSize(d, v) ==
    LET px == WideMul[Abs(d.x), Abs(v.x)]
        py == WideMul[Abs(d.y), Abs(v.y)]
    IN  IF (d.x < 0) = (v.x < 0) <=> (d.y < 0) = (v.y < 0) THEN WideAdd[px, py]
        ELSE IF WideLe[py, px] THEN WideSub[px, py]
        ELSE WideSub[py, px]

\* C21: with jiggle_x = jiggle_y the nudge given to the first label of the
\* moved pair is perpendicular to the separation of the two centroids.
\* Each component of the nudge is rounded to a step of a position, by less
\* than one step, so the dot product of a perpendicular nudge with the
\* separation is smaller in size than |dx| + |dy|.
C21_PerpendicularNudge ==
    (MovedDistinct /\ jiggle_x = jiggle_y) =>
        LET vec == Displacement(moved[1])
            d   == Separation
        IN  ~WideLe[<<0, Abs(d.x) + Abs(d.y)>>, DotSize(d, vec)]

\* C22: an iteration that moves labels moves one pair (i, j), i < j: that
\* pair's boxes intersected, no pair before it in the order of the list
\* did, its two labels are aligned to the centre, and every other label
\* has the position and the alignment it had before the iteration.
C22_OnePairPerIteration ==
    (moved # <<0, 0>>) =>
        LET boxes == get_text_boxes(prev)
        IN  /\ moved \in Pairs(Len(prev))
            /\ StopsScan(boxes[moved[1]], boxes[moved[2]])
            /\ \A q \in Pairs(Len(prev)) :
                  PairBefore(q, moved) => ~StopsScan(boxes[q[1]], boxes[q[2]])
            /\ \A k \in {moved[1], moved[2]} :
                  texts[k].ha = "center" /\ texts[k].va = "center"
            /\ \A k \in 1..Len(texts) :
                  (k # moved[1] /\ k # moved[2]) =>
                      /\ Position(texts[k]) = Position(prev[k])
                      /\ texts[k].ha = prev[k].ha /\ texts[k].va = prev[k].va

\* An iteration on three labels of which all three pairs intersected has
\* moved the first pair and left the third label where it was.
C22_Witness ==
    /\ moved = <<1, 2>>
    /\ Len(prev) = 3
    /\ ~HasNan(prev)
    /\ StopPairs(prev) = Pairs(3)
    /\ Position(texts[3]) = Position(prev[3])
    /\ Position(texts[1]) # Position(prev[1])

\* The background colours of the texts of a list.
Backgrounds(ts) == [i \in 1..Len(ts) |-> ts[i].bg]

\* The labels whose box intersected no other box before the last
\* iteration.
FreeLabels ==
    LET boxes == get_text_boxes(prev)
    IN  {k \in 1..Len(prev) :
            \A m \in 1..Len(prev) : m # k => ~StopsScan(boxes[k], boxes[m])}

\* C23: after an iteration in which an overlap was found every label of
\* the call has the background '#ffffffe0'; an iteration that finds no
\* overlap sets no background, so a call that converges in its first
\* iteration has changed no background.
C23_BackgroundOnOverlap ==
    /\ [](moved # <<0, 0>> => \A k \in 1..Len(texts) : texts[k].bg = "#ffffffe0")
    /\ [][moved' = <<0, 0>> => Backgrounds(texts') = Backgrounds(texts)]_vars
    /\ []((pc = "jiggle_done" /\ iters = 1 /\ moved = <<0, 0>>)
             => Backgrounds(texts) = Backgrounds(texts0))

\* An iteration moved a pair, and a third label that intersected nothing
\* and was not moved has the white background too.
C23_Witness ==
    /\ moved # <<0, 0>>
    /\ Len(texts) = 3
    /\ \E k \in FreeLabels :
          /\ Position(texts[k]) = Position(prev[k])
          /\ prev[k].bg = "none"
          /\ texts[k].bg = "#ffffffe0"

\* C24 as stated: called with no label or one label, jiggle_text finds no
\* pair, converges in its first iteration and modifies nothing.
C24_FewLabelsFirstIteration ==
    (JiggleEnded /\ Len(texts0) <= 1)
        => (pc = "jiggle_done" /\ iters = 1 /\ moved = <<0, 0>> /\ texts = texts0)

\* C24 amended: called with no label or one label, jiggle_text finds no
\* pair, raises nothing and modifies nothing; it returns in its first
\* iteration when maxiter >= 1, and with maxiter = 0 it runs no iteration.
C24_FewLabelsNoChange ==
    /\ Len(texts0) <= 1 => (pc # "jiggle_error" /\ moved = <<0, 0>> /\ texts = texts0)
    /\ (pc = "jiggle_done" /\ Len(texts0) <= 1)
          => /\ maxiter >= 1 => iters = 1
             /\ maxiter = 0 => iters = 0

\* A call with one label and three iterations allowed has returned after
\* one, the label as it was.
C24_Witness ==
    /\ pc = "jiggle_done"
    /\ Len(texts0) = 1
    /\ maxiter = 3 /\ iters = 1
    /\ texts = texts0

\* C25: when the first intersecting pair has identical centroids nothing
\* guards the normalization: the zero separation is divided by its zero
\* norm, and the position written to both labels is undefined (nan).
C25_IdenticalCentroidsNan ==
    (/\ moved # <<0, 0>>
     /\ ~prev[moved[1]].nan /\ ~prev[moved[2]].nan
     /\ PrevCentroid(moved[1]) = PrevCentroid(moved[2]))
        => (texts[moved[1]].nan /\ texts[moved[2]].nan)

\* Two labels one on the other were the first intersecting pair, and
\* both have a nan position.
C25_Witness ==
    /\ moved = <<1, 2>>
    /\ ~HasNan(prev)
    /\ PrevCentroid(1) = PrevCentroid(2)
    /\ texts[1].nan /\ texts[2].nan

\* The moved label i lies within jiggle_x horizontally and jiggle_y
\* vertically of the centroid its box had before the iteration.
WithinStep(i) ==
    /\ ~texts[i].nan
    /\ ~prev[i].nan
    /\ Abs(Displacement(i).x) <= jiggle_x
    /\ Abs(Displacement(i).y) <= jiggle_y

\* The two steps are 1% of the spans of the limits, from the entry of
\* the call on.
StepsFromLimits ==
    pc # "jiggle_call" =>
        /\ 100 * jiggle_x = (Max2(xlim[1], xlim[2]) - Min2(xlim[1], xlim[2])) * Unit
        /\ 100 * jiggle_y = (Max2(ylim[1], ylim[2]) - Min2(ylim[1], ylim[2])) * Unit

\* C26 as stated: the steps are computed once, at entry, as 1% of the
\* spans, and in every resolving iteration each of the two moved labels is
\* placed within jiggle_x horizontally and jiggle_y vertically of its own
\* centroid before the move.
C26_WithinStep ==
    /\ StepsFromLimits
    /\ moved # <<0, 0>> => (WithinStep(moved[1]) /\ WithinStep(moved[2]))

\* C26 amended: the steps are computed once, at entry, as 1% of the
\* spans; in every resolving iteration on a pair with finite, distinct
\* centroids each of the two moved labels is placed within jiggle_x
\* horizontally and jiggle_y vertically of its own centroid before the
\* move; on a pair with identical or undefined centroids both positions
\* are undefined.
C26_WithinStepIfDistinct ==
    /\ StepsFromLimits
    /\ MovedDistinct => (WithinStep(moved[1]) /\ WithinStep(moved[2]))
    /\ (moved # <<0, 0>> /\ ~MovedDistinct)
          => (texts[moved[1]].nan /\ texts[moved[2]].nan)

\* A second iteration moved a pair with distinct centroids by a step
\* that is not zero and within the two steps.
C26_Witness ==
    /\ MovedDistinct
    /\ iters = 2
    /\ jiggle_x = 10 * Unit /\ jiggle_y = 4 * Unit
    /\ Displacement(moved[1]) # [x |-> 0, y |-> 0]
    /\ WithinStep(moved[1]) /\ WithinStep(moved[2])

\* C29 as stated: each resolving iteration moves the two labels by equal
\* and opposite displacements from their centroids, so the sum of the two
\* new positions is the sum of the two centroids before the move.
C29_MidpointPreserved ==
    moved # <<0, 0>> =>
        /\ ~texts[moved[1]].nan /\ ~texts[moved[2]].nan
        /\ ~prev[moved[1]].nan /\ ~prev[moved[2]].nan
        /\ Displacement(moved[1]).x = -Displacement(moved[2]).x
        /\ Displacement(moved[1]).y = -Displacement(moved[2]).y
        /\ texts[moved[1]].x + texts[moved[2]].x
              = PrevCentroid(moved[1]).x + PrevCentroid(moved[2]).x
        /\ texts[moved[1]].y + texts[moved[2]].y
              = PrevCentroid(moved[1]).y + PrevCentroid(moved[2]).y

\* C29 amended: each resolving iteration on a pair with finite, distinct
\* centroids moves the two labels by equal and opposite displacements from
\* their centroids, so the sum of the two new positions is the sum of the
\* two centroids before the move; on a pair with identical or undefined
\* centroids both new positions are undefined and no sum is preserved.
C29_MidpointPreservedIfDistinct ==
    /\ MovedDistinct =>
          /\ ~texts[moved[1]].nan /\ ~texts[moved[2]].nan
          /\ Displacement(moved[1]).x = -Displacement(moved[2]).x
          /\ Displacement(moved[1]).y = -Displacement(moved[2]).y
          /\ texts[moved[1]].x + texts[moved[2]].x
                = PrevCentroid(moved[1]).x + PrevCentroid(moved[2]).x
          /\ texts[moved[1]].y + texts[moved[2]].y
                = PrevCentroid(moved[1]).y + PrevCentroid(moved[2]).y
    /\ (moved # <<0, 0>> /\ ~MovedDistinct)
          => (texts[moved[1]].nan /\ texts[moved[2]].nan)

\* An iteration moved the two labels of a pair with distinct centroids
\* by a displacement that is not zero, one the opposite of the other.
C29_Witness ==
    /\ MovedDistinct
    /\ Displacement(moved[1]).x # 0
    /\ Displacement(moved[1]).y # 0
    /\ Displacement(moved[1]).x + Displacement(moved[2]).x = 0
    /\ Displacement(moved[1]).y + Displacement(moved[2]).y = 0

----------------------------------------------------------------------------
(* The loading lines of a 2D scores plot: _add_2d_loading_lines calls       *)
(* _add_loading_line_text once per variable and then adjusts the labels.    *)
(* xvars holds one name per coefficient pair.                               *)

\* The default of the parameter maxiter of jiggle_text.
DefaultMaxiter == 1000

\* The settings dicts the caller passes, and None.
SettingsChoices ==
    {NoSettings} \cup
    {[given |-> TRUE, biplot |-> b, add_text |-> t, add_legend |-> l,
      adjust_text |-> a, jiggle_text |-> j] :
        b \in BOOLEAN, t \in BOOLEAN, l \in BOOLEAN, a \in BOOLEAN, j \in BOOLEAN}

\* The loadings (coeff_x, coeff_y) of a variable: none, two whose lines end
\* 100 apart on the top edge of the square view, and one to the left.
LoadingCoeffs == {<<0, 0>>, <<200, 500>>, <<300, 500>>, <<-200, 100>>}

\* The axes given: with limits that were set (a square around the origin,
\* and a view that leaves the origin out), and rescaling ones (a small
\* square and the unit square).  A rescaling axes here has its margins set
\* to 0 (axi.margins(0)) and holds data that reaches each of its limits, so
\* that its limits are the extent of the data drawn on it.
AxesChoices ==
    {[xlim |-> <<-500, 500>>, ylim |-> <<-500, 500>>, autoscale |-> FALSE],
     [xlim |-> <<100, 500>>, ylim |-> <<-500, 500>>, autoscale |-> FALSE],
     [xlim |-> <<-100, 100>>, ylim |-> <<-100, 100>>, autoscale |-> TRUE],
     [xlim |-> <<0, 1>>, ylim |-> <<0, 1>>, autoscale |-> TRUE]}

SetMin(S) == CHOOSE m \in S : \A n \in S : m <= n

SetMax(S) == CHOOSE m \in S : \A n \in S : m >= n

\* The limits (left < right) of the axes after data at the coordinates pts
\* was drawn on them: axes with limits that were set keep them, rescaling
\* axes take the extent of the data they hold, which is the extent they
\* had and pts.
Autoscaled(lim, on, pts) ==
    IF on THEN <<SetMin({lim[1]} \cup pts), SetMax({lim[2]} \cup pts)>> ELSE lim

\* The product r * n / d of a rational and a decimal constant.
RTimes(r, n, d) == Rat(r[1] * n, r[2] * d)

\* The whole data unit below a rational coordinate.  The coordinates that
\* extend the limits of rescaling axes are whole data units: 1.01 times a
\* loading of LoadingCoeffs is one, and a line end and 0.99 times it lie
\* within the extent the axes have already.
GridCoord(r) == r[1] \div r[2]

\* A rational coordinate as the position of a text: the nearest step.
TextCoord(r) ==
    (r[1] \div r[2]) * Unit + (2 * (r[1] % r[2]) * Unit + r[2]) \div (2 * r[2])

\* The extent of a rendered label in data coordinates is a share of the
\* view: twelve steps wide and two steps high.
Rendered(ts, xl, yl) ==
    [i \in 1..Len(ts) |->
        [ts[i] EXCEPT !.w = 12 * JiggleStep(xl), !.h = 2 * JiggleStep(yl)]]

\* "if xend is None or yend is None: xend, yend = xcoeff, ycoeff"
\* (this variant falls back to the origin).
FallBack_Origin(ret, xc, yc) ==
    IF IsNone(ret[1]) \/ IsNone(ret[2]) THEN <<Num(0), Num(0)>> ELSE ret

\* "if xend is None or yend is None: xend, yend = xcoeff, ycoeff".
FallBack(ret, xc, yc) ==
    IF IsNone(ret[1]) \/ IsNone(ret[2]) THEN <<Num(xc), Num(yc)>> ELSE ret

\* A drawing call on the axes and the point it is given.
Drawing(call, pt) == [call |-> call, x |-> pt[1], y |-> pt[2]]

\* The Text made by axi.text(xend, yend, label, **text_settings) with the
\* default text settings: bold, large, left and centre aligned.  It has
\* no extent in data coordinates before it is rendered.
LoadingLabel(end) ==
    Label(TextCoord(end[1]), TextCoord(end[2]), "left", "center", 0, 0)

\* The calls after the line(s): axi.text if settings['add_text'],
\* axi.scatter if settings['add_legend'].
TextAndMarker(s, end, scat) ==
    (IF s.add_text THEN <<Drawing("text", end)>> ELSE <<>>)
        \o (IF s.add_legend THEN <<Drawing("scatter", scat)>> ELSE <<>>)

\* _add_loading_line_text(axi, xcoeff, ycoeff, label, color, settings) on
\* axes with the limits xl, yl, for settings that is a dict: what it
\* returns and what it does to the axes.  The flag biplot of the function
\* is True throughout, so the limits read at entry are never set again.
add_loading_line_text(xl, yl, auto, xc, yc, s) ==
    IF s.biplot
    THEN LET end  == <<Num(xc), Num(yc)>>
             scat == <<RTimes(Num(xc), 101, 100), RTimes(Num(yc), 101, 100)>>
         IN  [called  |-> FALSE,
              ret     |-> <<None, None>>,
              end     |-> end,
              drawing |-> <<Drawing("annotate", end)>> \o TextAndMarker(s, end, scat),
              xlim    |-> IF s.add_legend
                          THEN Autoscaled(xl, auto, {GridCoord(scat[1])}) ELSE xl,
              ylim    |-> IF s.add_legend
                          THEN Autoscaled(yl, auto, {GridCoord(scat[2])}) ELSE yl]
    ELSE LET xl1  == Autoscaled(xl, auto, {0, xc})
             yl1  == Autoscaled(yl, auto, {0, yc})
             ret  == find_axis_intersection(xl1, yl1, xc, yc)
             end  == FallBack(ret, xc, yc)
             xl2  == Autoscaled(xl1, auto, {0, GridCoord(end[1])})
             yl2  == Autoscaled(yl1, auto, {0, GridCoord(end[2])})
             scat == <<RTimes(end[1], 99, 100), RTimes(end[2], 99, 100)>>
         IN  [called  |-> TRUE,
              ret     |-> ret,
              end     |-> end,
              drawing |-> <<Drawing("plot", <<Num(xc), Num(yc)>>),
                            Drawing("plot", end)>> \o TextAndMarker(s, end, scat),
              xlim    |-> IF s.add_legend
                          THEN Autoscaled(xl2, auto, {GridCoord(scat[1])}) ELSE xl2,
              ylim    |-> IF s.add_legend
                          THEN Autoscaled(yl2, auto, {GridCoord(scat[2])}) ELSE yl2]

\* "if settings.get('jiggle_text', False) and texts"
\* (this variant does not look at texts).
JiggleWanted_AnyTexts(s, ts) == s.jiggle_text

\* "if settings.get('jiggle_text', False) and texts".
JiggleWanted(s, ts) == s.jiggle_text /\ ts # <<>>

\* jiggle_text run with n passes of the loop left: the labels and the way
\* it ends.  A pass that moves a pair and leaves every label as it was
\* (labels at nan) is followed by the same pass until the range is used
\* up.
RECURSIVE JiggleFrom(_, _, _, _)
JiggleFrom(ts, jx, jy, n) ==
    IF ~LoopContinues(0, n) THEN [texts |-> ts, pc |-> "done"]
    ELSE LET r == JiggleIteration(ts, jx, jy)
         IN  IF r.exit = "break" THEN [texts |-> ts, pc |-> "done"]
             ELSE IF r.exit = "raise" THEN [texts |-> ts, pc |-> "error"]
             ELSE IF r.texts = ts THEN [texts |-> ts, pc |-> "done"]
             ELSE JiggleFrom(r.texts, jx, jy, n - 1)

\* jiggle_text(axi, texts) as _add_2d_loading_lines calls it.
JiggleRun(ts, xl, yl) ==
    JiggleFrom(Rendered(ts, xl, yl), JiggleStep(xl), JiggleStep(yl), DefaultMaxiter)

\* The displacements, in data units, that a label gets from adjust_text
\* here: none, one that lifts it clear of a label beside it, and one that
\* takes the first of two labels 100 apart onto the second.
AdjustMoves == {<<0, 0>>, <<0, 30>>, <<100, 0>>}

\* "if settings.get('adjust_text', False) and texts: adjust_text(texts)":
\* the labels after it.  adjust_text belongs to the package adjustText,
\* whose code is not part of src/: it repositions the Text objects it is
\* given, and releases of it differ in whether they also set the alignment
\* of every text to centre.  The result is any of these outcomes.
adjust_text(s, ts) ==
    IF s.adjust_text /\ ts # <<>>
    THEN {[i \in 1..Len(ts) |->
              [ts[i] EXCEPT !.x = @ + mv[i][1] * Unit,
                            !.y = @ + mv[i][2] * Unit,
                            !.ha = IF centred THEN "center" ELSE @,
                            !.va = IF centred THEN "center" ELSE @]] :
             mv \in [1..Len(ts) -> AdjustMoves], centred \in BOOLEAN}
    ELSE {ts}

\* The calls made after the loop, up to jiggle_text.
TailCalls(s, ts) ==
    (IF s.adjust_text /\ ts # <<>> THEN <<"adjust_text">> ELSE <<>>)
        \o (IF JiggleWanted(s, ts) THEN <<"jiggle_text">> ELSE <<>>)

\* "if settings.get('add_legend', False) and patches and labels".
LegendWanted(s, n) == s.add_legend /\ n > 0

OutsideLoading ==
    <<maxiter, iters, jiggle_x, jiggle_y, texts0, prev, moved, selVars,
      plot_fn, created, pairVars, scatVars, gridVars, legendVars, colorVars>>

InitLoading ==
    /\ pc = "lines_call"
    /\ AxisIdle
    /\ SelectorIdle
    /\ PlotIdle /\ PairIdle /\ ScatterIdle /\ GridIdle /\ LegendIdle /\ ColorIdle
    /\ texts = <<>> /\ texts0 = <<>> /\ prev = <<>>
    /\ maxiter = 0 /\ iters = 0
    /\ jiggle_x = 0 /\ jiggle_y = 0
    /\ moved = <<0, 0>>
    /\ nanOutcome \in {"true", "false", "raise"}
    /\ \E a \in AxesChoices :
          xlim = a.xlim /\ ylim = a.ylim /\ autoscale = a.autoscale
    /\ settings \in SettingsChoices
    /\ coefficients \in UNION {[1..n -> LoadingCoeffs] : n \in 0..MaxLoadings}
    /\ load_i = 0
    /\ lines = <<>>
    /\ patches = 0
    /\ legend = FALSE
    /\ extra_artists = 0
    /\ trace = <<>>

\* Entry of _add_2d_loading_lines: the colours and the empty lists.
LinesCall ==
    /\ pc = "lines_call"
    /\ pc' = "lines_loop"
    /\ texts' = <<>>
    /\ patches' = 0
    /\ legend' = FALSE
    /\ UNCHANGED <<xlim, ylim, axisVars, nanOutcome, OutsideLoading, raised,
                   settings, coefficients, load_i, lines, extra_artists, trace,
                   autoscale>>

\* One pass of the loop: _add_loading_line_text for the next variable, and
\* its text and marker appended to the lists.
LinesAdd ==
    /\ pc = "lines_loop"
    /\ load_i < Len(coefficients)
    /\ settings.given
    /\ \E c \in {coefficients[load_i + 1]} :
       \E r \in {add_loading_line_text(xlim, ylim, autoscale, c[1], c[2], settings)} :
          /\ xcoeff' = c[1]
          /\ ycoeff' = c[2]
          /\ xend' = r.end[1]
          /\ yend' = r.end[2]
          /\ xlim' = r.xlim
          /\ ylim' = r.ylim
          /\ lines' = Append(lines,
                 [biplot |-> settings.biplot, xcoeff |-> c[1], ycoeff |-> c[2],
                  called |-> r.called, ret |-> r.ret, drawing |-> r.drawing,
                  xlim0 |-> xlim, ylim0 |-> ylim,
                  xlim1 |-> r.xlim, ylim1 |-> r.ylim])
          /\ texts' = IF settings.add_text
                      THEN Append(texts, LoadingLabel(r.end)) ELSE texts
    /\ patches' = IF settings.add_legend THEN patches + 1 ELSE patches
    /\ load_i' = load_i + 1
    /\ trace' = Append(trace, "_add_loading_line_text")
    /\ UNCHANGED <<pc, nanOutcome, OutsideLoading, raised, settings, coefficients,
                   legend, extra_artists, autoscale>>

\* One pass of the loop with settings = None: settings.get raises in
\* _add_loading_line_text before anything is drawn.
LinesAddFails ==
    /\ pc = "lines_loop"
    /\ load_i < Len(coefficients)
    /\ ~settings.given
    /\ pc' = "lines_error"
    /\ raised' = "AttributeError"
    /\ trace' = Append(trace, "_add_loading_line_text")
    /\ UNCHANGED <<xlim, ylim, axisVars, texts, nanOutcome, OutsideLoading,
                   settings, coefficients, load_i, lines, patches, legend,
                   extra_artists, autoscale>>

\* After the loop: the texts go to extra_artists, adjust_text and
\* jiggle_text are called if asked for, the legend is made, and
\* _add_2d_loading_lines returns.
LinesReturn ==
    /\ pc = "lines_loop"
    /\ load_i = Len(coefficients)
    /\ IF ~settings.given
       THEN /\ extra_artists' = 0
            /\ UNCHANGED <<texts, legend, trace>>
       ELSE \E adjusted \in adjust_text(settings, texts) :
            \E r \in {IF JiggleWanted(settings, texts)
                      THEN JiggleRun(adjusted, xlim, ylim)
                      ELSE [texts |-> adjusted, pc |-> "done"]} :
               /\ r.pc = "done"
               /\ texts' = r.texts
               /\ trace' = trace \o TailCalls(settings, texts)
               /\ legend' = LegendWanted(settings, patches)
               /\ extra_artists' =
                     Len(texts) + (IF LegendWanted(settings, patches) THEN 1 ELSE 0)
    /\ pc' = "lines_done"
    /\ UNCHANGED <<xlim, ylim, axisVars, nanOutcome, OutsideLoading, raised,
                   settings, coefficients, load_i, lines, patches, autoscale>>

\* After the loop: adjust_text is called if asked for, then jiggle_text is
\* called and the intersection test raises in it.
LinesJiggleRaises ==
    /\ pc = "lines_loop"
    /\ load_i = Len(coefficients)
    /\ settings.given
    /\ JiggleWanted(settings, texts)
    /\ \E adjusted \in adjust_text(settings, texts) :
       \E r \in {JiggleRun(adjusted, xlim, ylim)} :
          /\ r.pc = "error"
          /\ texts' = r.texts
    /\ trace' = trace \o TailCalls(settings, texts)
    /\ extra_artists' = Len(texts)
    /\ raised' = "intersects"
    /\ pc' = "lines_error"
    /\ UNCHANGED <<xlim, ylim, axisVars, nanOutcome, OutsideLoading, settings,
                   coefficients, load_i, lines, patches, legend, autoscale>>

NextLoading ==
    \/ LinesCall
    \/ LinesAdd
    \/ LinesAddFails
    \/ LinesReturn
    \/ LinesJiggleRaises

SpecLoading == InitLoading /\ [][NextLoading]_vars

\* find_axis_intersection was called for variable k and returned None for
\* xend or yend.
ReturnedNone(k) == lines[k].called /\ (IsNone(lines[k].ret[1]) \/ IsNone(lines[k].ret[2]))

\* The raw loading point of variable k.
RawPoint(k) == <<Num(lines[k].xcoeff), Num(lines[k].ycoeff)>>

\* The points given to the drawing calls of the kind c for variable k.
DrawnAt(k, c) ==
    {<<lines[k].drawing[n].x, lines[k].drawing[n].y>> :
        n \in {m \in 1..Len(lines[k].drawing) : lines[k].drawing[m].call = c}}

\* No drawing call for variable k got a None coordinate.
NoNoneDrawn(k) ==
    \A n \in 1..Len(lines[k].drawing) :
        ~IsNone(lines[k].drawing[n].x) /\ ~IsNone(lines[k].drawing[n].y)

\* C27 as stated: _add_loading_line_text gives no drawing call a None
\* coordinate: when find_axis_intersection returns None for xend or yend,
\* the line end, the label position and the legend marker position are
\* the raw loading point (xcoeff, ycoeff).
C27_FallBackToLoading ==
    \A k \in 1..Len(lines) :
        /\ NoNoneDrawn(k)
        /\ ReturnedNone(k) =>
              /\ DrawnAt(k, "plot") = {RawPoint(k)}
              /\ DrawnAt(k, "text") \subseteq {RawPoint(k)}
              /\ DrawnAt(k, "scatter") \subseteq {RawPoint(k)}

\* C27 amended: _add_loading_line_text gives no drawing call a None
\* coordinate: when find_axis_intersection returns None for xend or yend,
\* the line end and the label position are the raw loading point
\* (xcoeff, ycoeff), and the legend marker is at 0.99 times that point.
C27_FallBackMarkerScaled ==
    \A k \in 1..Len(lines) :
        /\ NoNoneDrawn(k)
        /\ ReturnedNone(k) =>
              /\ DrawnAt(k, "plot") = {RawPoint(k)}
              /\ DrawnAt(k, "text") \subseteq {RawPoint(k)}
              /\ DrawnAt(k, "scatter") \subseteq
                    {<<RTimes(RawPoint(k)[1], 99, 100), RTimes(RawPoint(k)[2], 99, 100)>>}

\* A variable with a loading that is not zero, on axes whose view leaves
\* the origin out: find_axis_intersection returned None, and the line,
\* the label and the marker were drawn.
C27_Witness ==
    \E k \in 1..Len(lines) :
        /\ ReturnedNone(k)
        /\ lines[k].xcoeff # 0
        /\ DrawnAt(k, "plot") = {RawPoint(k)}
        /\ DrawnAt(k, "text") = {RawPoint(k)}
        /\ DrawnAt(k, "scatter") # {}

\* The positions in trace of the calls of f.
CallsOf(f) == {n \in 1..Len(trace) : trace[n] = f}

\* C28: for one 2D loading plot jiggle_text is called at most once, after
\* the line and the label of every variable were added and with no
\* addition after it, and only if settings['jiggle_text'] is true and at
\* least one label text was made.
C28_JiggleOnceAfterAll ==
    /\ Cardinality(CallsOf("jiggle_text")) <= 1
    /\ \A n \in CallsOf("jiggle_text") :
          /\ \A m \in CallsOf("_add_loading_line_text") : m < n
          /\ Cardinality(CallsOf("_add_loading_line_text")) = Len(coefficients)
          /\ load_i = Len(coefficients)
          /\ settings.given /\ settings.jiggle_text
          /\ Len(texts) >= 1

\* Two variables were added, each with a label, then jiggle_text was
\* called, moved the two labels, and the function returned.
C28_Witness ==
    /\ pc = "lines_done"
    /\ trace = <<"_add_loading_line_text", "_add_loading_line_text", "jiggle_text">>
    /\ Len(texts) = 2
    /\ \A k \in 1..2 : texts[k].bg = "#ffffffe0" /\ ~texts[k].nan

\* C30: in non-biplot mode _add_loading_line_text leaves the axes with
\* the x and y limits it read at entry: adding a loading line, its label
\* and its marker does not change the viewport of the scores plot.
C30_LimitsRestored ==
    \A k \in 1..Len(lines) :
        ~lines[k].biplot =>
            (lines[k].xlim1 = lines[k].xlim0 /\ lines[k].ylim1 = lines[k].ylim0)

====
